---- MODULE Spec2Model ----
(***************************************************************************)
(* A model of ts_atspec: the protocol client (Model, model.py), the        *)
(* simulated controller (MockSpectrographController, mock_controller.py)   *)
(* and the motion orchestration of the CSC (atspec_csc.py).                *)
(*                                                                         *)
(* Bytes are one-character strings.  A byte on the wire is a record        *)
(* [ch, id]: the character and the number of the run_command call whose    *)
(* command caused it (0 for the banner).  Numbers (positions) are          *)
(* fixed-point integers counting 1/Scale of a unit, so that 3 == 3.0 as in *)
(* Python; a position also remembers whether Python holds it as a float,   *)
(* because that decides how it is printed.                                 *)
(***************************************************************************)
EXTENDS Integers, Sequences, FiniteSets, TLC

(***************************************************************************)
(* Bounds of the model                                                     *)
(***************************************************************************)
\* number of concurrent client tasks
NumTasks == 2
\* number of TCP connections the controller accepts in a behaviour
MaxConns == 2
\* number of run_command calls in a behaviour
MaxCalls == 3
\* number of run_command calls the commands of the CSC make in a behaviour
MaxCscCalls == 5

\* fixed-point scale: a number n stands for n / Scale
Scale == 10 * 10

(***************************************************************************)
(* Bytes and strings                                                       *)
(***************************************************************************)
CR == "\r"
LF == "\n"
SP == " "
CRLF == <<CR, LF>>
Whitespace == {SP, CR, LF, "\t"}
DigitChars == <<"0", "1", "2", "3", "4", "5", "6", "7", "8", "9">>
Digits == {DigitChars[i] : i \in 1..10}

Min(a, b) == IF a <= b THEN a ELSE b

\* s[i..j], empty when i > j
Slice(s, i, j) == IF i > j THEN <<>> ELSE SubSeq(s, i, j)

\* position of the first element of s in set cs, 0 if none
RECURSIVE FindFrom(_, _, _)
FindFrom(s, cs, i) ==
    IF i > Len(s) THEN 0
    ELSE IF s[i] \in cs THEN i
    ELSE FindFrom(s, cs, i + 1)

\* position of the first occurrence of sub in s at or after i, 0 if none
RECURSIVE FindSub(_, _, _)
FindSub(s, sub, i) ==
    IF i + Len(sub) - 1 > Len(s) THEN 0
    ELSE IF SubSeq(s, i, i + Len(sub) - 1) = sub THEN i
    ELSE FindSub(s, sub, i + 1)

Contains(s, sub) == FindSub(s, sub, 1) # 0

\* str.rstrip()
RECURSIVE rstrip(_)
rstrip(s) ==
    IF s = <<>> THEN s
    ELSE IF s[Len(s)] \in Whitespace THEN rstrip(SubSeq(s, 1, Len(s) - 1))
    ELSE s

RECURSIVE lstrip(_)
lstrip(s) ==
    IF s = <<>> THEN s
    ELSE IF Head(s) \in Whitespace THEN lstrip(Tail(s))
    ELSE s

\* str.strip()
strip(s) == lstrip(rstrip(s))

\* F(e), with e evaluated once
Bind(e, F(_)) == CHOOSE r \in {F(x) : x \in {e}} : TRUE

\* str.split(" "): the fields between single spaces
RECURSIVE split(_)
split(s) ==
    Bind(FindFrom(s, {SP}, 1),
         LAMBDA k : IF k = 0 THEN <<s>>
                    ELSE <<Slice(s, 1, k - 1)>>
                         \o Bind(Slice(s, k + 1, Len(s)), LAMBDA rest : split(rest)))

DigitVal(c) == CHOOSE d \in 0..9 : DigitChars[d + 1] = c

\* str(n) for a natural number n
RECURSIVE FormatNat(_)
FormatNat(n) ==
    IF n < 10 THEN <<DigitChars[n + 1]>>
    ELSE FormatNat(n \div 10) \o <<DigitChars[(n % 10) + 1]>>

\* the value of a non-empty string of digits
RECURSIVE DigitsVal(_)
DigitsVal(s) ==
    IF s = <<>> THEN 0
    ELSE DigitsVal(SubSeq(s, 1, Len(s) - 1)) * 10 + DigitVal(s[Len(s)])

AllDigits(s) == s # <<>> /\ \A i \in 1..Len(s) : s[i] \in Digits

\* a number as Python holds it: v counts 1/Scale, fl tells a float from an int
Num(v, fl) == [v |-> v, fl |-> fl]
NoNum == [v |-> -1, fl |-> FALSE]

\* str(x) of an int, repr(x) of a float with at most two decimals
FormatNum(x) ==
    IF ~x.fl THEN FormatNat(x.v \div Scale)
    ELSE LET frac == x.v % Scale IN
         FormatNat(x.v \div Scale) \o <<".">> \o
         (IF frac % 10 = 0 THEN <<DigitChars[(frac \div 10) + 1]>>
          ELSE <<DigitChars[(frac \div 10) + 1], DigitChars[(frac % 10) + 1]>>)

\* int(s): a number, or NoNum where Python raises ValueError
ParseInt(s) ==
    Bind(strip(s),
         LAMBDA t : IF AllDigits(t) THEN Num(DigitsVal(t) * Scale, FALSE) ELSE NoNum)

\* float of the stripped string t
ParseFloatOf(t) ==
    LET k == FindFrom(t, {"."}, 1) IN
    IF k = 0 THEN
        IF AllDigits(t) THEN Num(DigitsVal(t) * Scale, TRUE) ELSE NoNum
    ELSE LET ip == Slice(t, 1, k - 1)
             fp == Slice(t, k + 1, Len(t)) IN
         IF AllDigits(ip) /\ AllDigits(fp) /\ Len(fp) <= 2 THEN
             Num(DigitsVal(ip) * Scale
                 + (IF Len(fp) = 1 THEN DigitVal(fp[1]) * 10 ELSE DigitsVal(fp)),
                 TRUE)
         ELSE NoNum

\* float(s): a number, or NoNum where Python raises ValueError
ParseFloat(s) == Bind(strip(s), LAMBDA t : ParseFloatOf(t))

\* bytes tagged with the call that caused them
Tag(s, id) == [i \in 1..Len(s) |-> [ch |-> s[i], id |-> id]]
Chars(w) == [i \in 1..Len(w) |-> w[i].ch]
Ids(w) == {w[i].id : i \in 1..Len(w)}

(***************************************************************************)
(* Protocol strings                                                        *)
(***************************************************************************)
PROMPT == ">"
ACK == <<SP>>
SPECTROGRAPH == <<"S", "p", "e", "c", "t", "r", "o", "g", "r", "a", "p", "h">>
\* a faulty welcome message, which ends without the prompt
WelcomeNoPrompt == CRLF \o SPECTROGRAPH \o CRLF
WELCOME == CRLF \o SPECTROGRAPH \o CRLF \o <<PROMPT>>
INVALID_ARGUMENT == <<"I", "n", "v", "a", "l", "i", "d", SP,
                      "A", "r", "g", "u", "m", "e", "n", "t">>
UNKNOWN == <<"?", "U", "n", "k", "n", "o", "w", "n">>
UNKNOWN_LINE == <<SP>> \o UNKNOWN \o CRLF
\* a byte that no UTF-8 text contains (0xff)
NOT_UTF8 == "<ff>"

Axes == {"fw", "gw", "ls"}
Wheels == {"fw", "gw"}

\* axis letters of the command set
AxisLetters == [fw |-> <<"F", "W">>, gw |-> <<"G", "R">>, ls |-> <<"L", "S">>]

(***************************************************************************)
(* MockSpectrographController: tables                                      *)
(***************************************************************************)
\* self.states and self.error: the letter of code k is at k + 1
states == <<"I", "M", "S", "X">>
error == <<"N", "B", "I", "T">>

fw_limit == <<0, 3>>
gw_limit == <<0, 3>>
ls_limit == <<0, 1000>>
ls_step == 1

\* the sleeps of the controller, in ticks of 0.1 s: wait_time (a status, a
\* home), wait_time_move (a wheel move), ls_step_time (a step of the stage)
wait_time == 10
wait_time_move == 50
ls_step_time == 2

limit(a) == IF a = "fw" THEN fw_limit ELSE IF a = "gw" THEN gw_limit ELSE ls_limit

\* self._cmds: the handler of a 4-character prefix; "None" for the keys that
\* map to None, "missing" for a prefix that is no key
cmds(p) ==
    IF Len(p) # 4 THEN [h |-> "missing", a |-> "fw"]
    ELSE LET
        ax == {a \in Axes : AxisLetters[a] = <<p[2], p[3]>>}
        a == IF ax = {} THEN "fw" ELSE CHOOSE x \in ax : TRUE
    IN  IF p \in {<<"!", "X", "X", "X">>, <<"!", "L", "D", "C">>, <<"?", "L", "S", "L">>,
                  <<"?", "G", "R", "P">>, <<"?", "F", "W", "P">>}
            THEN [h |-> "None", a |-> a]
        ELSE IF ax = {} THEN [h |-> "missing", a |-> a]
        ELSE IF p[1] = "?" /\ p[4] = "S" THEN [h |-> "status", a |-> a]
        ELSE IF p[1] = "!" /\ p[4] = "I" THEN [h |-> "home", a |-> a]
        ELSE IF p[1] = "!" /\ p[4] = "M" THEN [h |-> "move", a |-> a]
        ELSE [h |-> "missing", a |-> a]

\* the reply of fws, grs and lss
StatusLine(st, p, e) ==
    <<SP, states[st + 1], SP>> \o FormatNum(p) \o <<SP, error[e + 1]>> \o CRLF

\* np.arange(start, stop, step) has a next element after cur; exact for the
\* whole-number positions of the commands below (arange_len and arange_at are
\* np.arange for any position)
ArangeMore(cur, stop, dir) ==
    IF dir > 0 THEN cur + dir * ls_step * Scale < stop
    ELSE cur + dir * ls_step * Scale > stop

(***************************************************************************)
(* np.arange on floats, as _execute_ls_move calls it.  A double that is    *)
(* within a few units in the last place of a decimal number is the pair    *)
(* [k, o]: it is k / Scale + o * Unit exactly, where Unit is 1/25 of the   *)
(* spacing of the doubles at 1 / Scale.  Every operation is the IEEE 754   *)
(* one: the exact result, rounded to the nearest double, ties to even.     *)
(***************************************************************************)
RECURSIVE Pow2(_)
Pow2(n) == IF n = 0 THEN 1 ELSE 2 * Pow2(n - 1)

\* 2^n modulo m
RECURSIVE Pow2Mod(_, _)
Pow2Mod(n, m) == IF n = 0 THEN 1 % m ELSE (2 * Pow2Mod(n - 1, m)) % m

\* the binary exponent E of k / Scale, k > 0: 2^E <= k / Scale < 2^(E + 1)
RECURSIVE Exponent(_)
Exponent(k) == IF k >= 2 * Scale THEN 1 + Exponent(k \div 2)
               ELSE IF k < Scale THEN Exponent(2 * k) - 1 ELSE 0

\* the exponent of the smallest nonzero number 1 / Scale
Emin == Exponent(1)

\* k / Scale is a power of two
IsPow2(k) == IF Exponent(k) >= 0 THEN k = Scale * Pow2(Exponent(k))
             ELSE k * Pow2(-Exponent(k)) = Scale

Dbl(k, o) == [k |-> k, o |-> o]
Neg(x) == Dbl(-x.k, -x.o)

\* the double nearest to k / Scale + o * Unit, for k > 0.  The doubles of
\* exponent E are the multiples of ulp = 2^(E - 52), which is 25 * W units;
\* k / Scale lies r / 25 of an ulp above one of them, whose mantissa is odd or
\* even (odd); x is the distance of the exact value from that double
RoundPos(k, o) ==
    LET E == IF IsPow2(k) /\ o < 0 THEN Exponent(k) - 1 ELSE Exponent(k)
        W == Pow2(E - Emin)
        r == (k * Pow2Mod(50 - E, 25)) % 25
        q == (k * Pow2Mod(50 - E, 50)) % 50
        odd == ((q - r) \div 25) % 2 = 1
        ulp == 25 * W
        x == o + r * W
        m == x \div ulp
        rem == x - m * ulp
        up == 2 * rem > ulp \/ (2 * rem = ulp /\ (odd <=> (m % 2 = 0)))
    IN  Dbl(k, (IF up THEN m + 1 ELSE m) * ulp - r * W)

Round(k, o) == IF k = 0 THEN Dbl(0, o)
               ELSE IF k > 0 THEN RoundPos(k, o) ELSE Neg(RoundPos(-k, -o))

\* float("k / Scale"), x + y, x - y, i * x, x < y, math.ceil(x) for x > 0
FromDec(k) == Round(k, 0)
Add(x, y) == Round(x.k + y.k, x.o + y.o)
Sub(x, y) == Round(x.k - y.k, x.o - y.o)
Mul(i, x) == Round(i * x.k, i * x.o)
Less(x, y) == x.k < y.k \/ (x.k = y.k /\ x.o < y.o)
Ceil(x) == IF x.k % Scale = 0 THEN x.k \div Scale + (IF x.o > 0 THEN 1 ELSE 0)
           ELSE x.k \div Scale + 1

\* len(np.arange(start, stop, step)) for step 1.0 or -1.0:
\* ceil((stop - start) / step)
arange_len(start, stop, step) ==
    Bind(Sub(stop, start), LAMBDA d : Ceil(IF step.k > 0 THEN d ELSE Neg(d)))

\* np.arange(start, stop, step)[i]: start, start + step, and from the third
\* on start + i * delta with delta = (start + step) - start
arange_at(start, step, i) ==
    IF i = 0 THEN start
    ELSE IF i = 1 THEN Add(start, step)
    ELSE Add(start, Mul(i, Sub(Add(start, step), start)))

(***************************************************************************)
(* State                                                                   *)
(***************************************************************************)
VARIABLES
    \* MockSpectrographController: _fw_state, _gw_state, _ls_state ...
    ax_state, ax_pos, ax_err,
    \* the motion tasks fwm, grm and lsm have created, in order of creation;
    \* left is what is left of the sleep of a task, in ticks
    moves,
    \* cmd_loop of each connection: [pc, a, id, left]; left is what is left
    \* of the sleep of its handler, in ticks
    srv,
    \* the byte streams of each connection and the state of the connection
    c2s, s2c, link,
    \* Model: _reader, _writer (0 is None), connect_task, cmd_lock
    reader, writer, connect_task, cmd_lock,
    \* the client tasks and the calls they are in
    task,
    \* what the step just taken returned to the caller of a method of Model
    \* (NoOutcome when the step was not the end of a call)
    last,
    \* connections opened and run_command calls made so far
    nconn, ncalls,
    \* CSC: the command each task runs (move_element, home_element) and where
    \* it is; the set_write calls of the step just taken
    csc, pub,
    \* CSC: the data of the event topics evt_<element>State,
    \* evt_reported<element>Position and evt_<element>InPosition
    ev,
    \* CSC: summary_state, the errorCode of its last fault (0 when it has had
    \* none) and is_exposing
    summary_state, errorCode, is_exposing,
    \* CSC: the disable command in progress: where end_disable is (pc) and
    \* what is left of the timeout of its wait for the health loop, in ticks
    disable,
    \* MockSpectrographController with its linear stage in double precision:
    \* _ls_pos, _ls_state and the task _execute_ls_move
    stage,
    \* the lines a client other than Model has written to its connection
    raw,
    \* the last call of CSC.check_fg_config: its argument and what it returned
    fg,
    \* a status reply of the controller and what Model.query_fw_status,
    \* query_gw_status or query_gs_status makes of it
    decode

devVars == <<ax_state, ax_pos, ax_err, moves>>
netVars == <<srv, c2s, s2c, link>>
modelVars == <<reader, writer, connect_task, cmd_lock>>
cscVars == <<csc, pub, ev>>
flagVars == <<summary_state, errorCode, is_exposing, disable>>
unitVars == <<stage, raw, fg, decode>>
vars == <<ax_state, ax_pos, ax_err, moves, srv, c2s, s2c, link,
          reader, writer, connect_task, cmd_lock, task, last, nconn, ncalls,
          csc, pub, ev, summary_state, errorCode, is_exposing, disable, stage,
          raw, fg, decode>>

Tasks == 1..NumTasks
Conns == 1..MaxConns

NoOutcome == [t |-> 0, op |-> "none", cmd |-> <<>>, want |-> FALSE, id |-> 0,
              pr |-> <<>>, wrote |-> FALSE, nolink |-> FALSE, at |-> "idle",
              res |-> "none", err |-> "none", got |-> <<>>, val |-> <<>>]

\* a step that ends no call: no task of the CSC goes on
NoReturn ==
    last' = NoOutcome /\ UNCHANGED <<csc, ev, flagVars, unitVars>> /\ pub' = <<>>

(***************************************************************************)
(* MockSpectrographController                                              *)
(***************************************************************************)
RemoveAt(s, i) == Slice(s, 1, i - 1) \o Slice(s, i + 1, Len(s))

\* a motion task has been created and has not run its first step yet: the
\* event loop runs it before any later step of a command loop
NewTask == \E i \in 1..Len(moves) : moves[i].phase = "new"

\* writer.write(reply); writer.write(">"): the bytes reach the client while the
\* connection is open; the reply carries the id of its command
SrvWrite(c, reply, id) ==
    IF link[c] = "open" THEN s2c[c] \o Tag(reply, id) \o Tag(<<PROMPT>>, 0) ELSE s2c[c]

\* where cmd_loop is after "await writer.drain()": on a connection the client
\* has left, drain may raise and end the loop
AfterDrain(c) == IF link[c] = "open" THEN {"read"} ELSE {"read", "closed"}

InLimit(a, p) == limit(a)[1] * Scale <= p.v /\ p.v <= limit(a)[2] * Scale

\* cmd_loop: the welcome message of a new connection
cmd_loop_begin(c) ==
    /\ srv[c].pc = "start"
    /\ s2c' = [s2c EXCEPT ![c] = IF link[c] = "open" THEN @ \o Tag(WELCOME, 0) ELSE @]
    /\ srv' = [srv EXCEPT ![c].pc = "read"]
    /\ UNCHANGED <<devVars, c2s, link, modelVars, task, nconn, ncalls>>
    /\ NoReturn

\* fws, grs, lss before the sleep
status_begin(c, a, id) ==
    /\ srv' = [srv EXCEPT ![c] = [pc |-> "status", a |-> a, id |-> id,
                                  left |-> wait_time]]
    /\ UNCHANGED <<devVars, s2c>>

\* a faulty home, which leaves the position where it is
HomeKeepsPosition(c, a, id) ==
    /\ ax_state' = [ax_state EXCEPT ![a] = 0]
    /\ ax_err' = [ax_err EXCEPT ![a] = 0]
    /\ srv' = [srv EXCEPT ![c] = [pc |-> "home", a |-> a, id |-> id,
                                  left |-> wait_time]]
    /\ UNCHANGED <<ax_pos, moves, s2c>>

\* a faulty home, which puts every element at position 0
HomeZeroesAll(c, a, id) ==
    /\ ax_state' = [ax_state EXCEPT ![a] = 0]
    /\ ax_pos' = [b \in Axes |-> Num(0, FALSE)]
    /\ ax_err' = [ax_err EXCEPT ![a] = 0]
    /\ srv' = [srv EXCEPT ![c] = [pc |-> "home", a |-> a, id |-> id,
                                  left |-> wait_time]]
    /\ UNCHANGED <<moves, s2c>>

\* fwi, gwi, lsi before the sleep
home_begin(c, a, id) ==
    /\ ax_state' = [ax_state EXCEPT ![a] = 0]
    /\ ax_pos' = [ax_pos EXCEPT ![a] = Num(0, FALSE)]
    /\ ax_err' = [ax_err EXCEPT ![a] = 0]
    /\ srv' = [srv EXCEPT ![c] = [pc |-> "home", a |-> a, id |-> id,
                                  left |-> wait_time]]
    /\ UNCHANGED <<moves, s2c>>

\* a handler that compares the position with no limit
MoveUnlimited(a, val) ==
    LET new_pos == IF a \in Wheels THEN ParseInt(val) ELSE ParseFloat(val) IN
    IF new_pos = NoNum THEN [reply |-> UNKNOWN, start |-> FALSE, pos |-> NoNum]
    ELSE [reply |-> ACK, start |-> TRUE, pos |-> new_pos]

\* the reply of fwm, grm, lsm to the argument val, and whether a task is created
move_reply(a, val) ==
    LET new_pos == IF a \in Wheels THEN ParseInt(val) ELSE ParseFloat(val) IN
    IF new_pos = NoNum THEN [reply |-> UNKNOWN, start |-> FALSE, pos |-> NoNum]
    ELSE IF InLimit(a, new_pos) THEN [reply |-> ACK, start |-> TRUE, pos |-> new_pos]
    ELSE [reply |-> INVALID_ARGUMENT, start |-> FALSE, pos |-> NoNum]

\* fwm, grm, lsm, then cmd_loop writes the reply and the prompt
move_handler(c, a, id, val) ==
    \E r \in {move_reply(a, val)} :
    /\ moves' = IF r.start
                THEN Append(moves, [a |-> a, target |-> r.pos, phase |-> "new",
                                    cur |-> 0, dir |-> 0, left |-> 0])
                ELSE moves
    /\ s2c' = [s2c EXCEPT ![c] = SrvWrite(c, r.reply, id)]
    /\ \E nxt \in AfterDrain(c) : srv' = [srv EXCEPT ![c].pc = nxt]
    /\ UNCHANGED <<ax_state, ax_pos, ax_err>>

\* cmd_loop: a key whose handler is None fails "assert callable(cmd)", a prefix
\* that is no key takes the else branch; both write " ?Unknown\r\n"
unknown_handler(c, id) ==
    /\ s2c' = [s2c EXCEPT ![c] = SrvWrite(c, UNKNOWN_LINE, id)]
    /\ \E nxt \in AfterDrain(c) : srv' = [srv EXCEPT ![c].pc = nxt]
    /\ UNCHANGED devVars

\* bytes.decode() raises UnicodeDecodeError
DecodeFails(bytes) == \E i \in 1..Len(bytes) : bytes[i] = NOT_UTF8

\* cmd_loop: readline, decode, strip and dispatch on the first four characters
cmd_loop(c) ==
    /\ srv[c].pc = "read"
    /\ ~NewTask
    /\ \E k \in {FindFrom(Chars(c2s[c]), {LF}, 1)} :
       /\ k # 0 \/ link[c] # "open"
       /\ \E bytes \in {IF k # 0 THEN Slice(c2s[c], 1, k) ELSE c2s[c]} :
          \E line \in {strip(Chars(bytes))} :
          \E h \in {cmds(Slice(line, 1, Min(4, Len(line))))} :
          LET rest == IF k # 0 THEN Slice(c2s[c], k + 1, Len(c2s[c])) ELSE <<>>
              id == IF bytes = <<>> THEN 0 ELSE bytes[1].id
          IN
          /\ c2s' = [c2s EXCEPT ![c] = rest]
          /\ IF bytes = <<>> THEN
                 \* connection lost: close the writer and exit the loop
                 /\ srv' = [srv EXCEPT ![c].pc = "closed"]
                 /\ UNCHANGED <<devVars, s2c>>
             ELSE IF DecodeFails(Chars(bytes)) THEN
                 \* decode() is outside the try: the exception ends cmd_loop,
                 \* and asyncio leaves the transport as it is (Python up to
                 \* 3.11) or closes it (from 3.12 on)
                 /\ \E end \in {"crashed", "closed"} :
                        srv' = [srv EXCEPT ![c].pc = end]
                 /\ UNCHANGED <<devVars, s2c>>
             ELSE IF line = <<>> THEN
                 UNCHANGED <<devVars, s2c, srv>>
             ELSE IF h.h = "status" THEN status_begin(c, h.a, id)
             ELSE IF h.h = "home" THEN home_begin(c, h.a, id)
             ELSE IF h.h = "move" THEN
                 move_handler(c, h.a, id, Slice(line, 5, Len(line)))
             ELSE unknown_handler(c, id)
    /\ UNCHANGED <<link, modelVars, task, nconn, ncalls>>
    /\ NoReturn

\* fws, grs, lss after the sleep, then cmd_loop writes the reply and the prompt
status_reply(c) ==
    /\ srv[c].pc = "status"
    /\ ~NewTask
    /\ LET a == srv[c].a IN
       s2c' = [s2c EXCEPT ![c] =
                 SrvWrite(c, StatusLine(ax_state[a], ax_pos[a], ax_err[a]), srv[c].id)]
    /\ \E nxt \in AfterDrain(c) : srv' = [srv EXCEPT ![c].pc = nxt]
    /\ UNCHANGED <<devVars, c2s, link, modelVars, task, nconn, ncalls>>
    /\ NoReturn

\* a faulty home, which acknowledges and leaves the element Homing
HomeStaysHoming(c) ==
    /\ srv[c].pc = "home"
    /\ ~NewTask
    /\ s2c' = [s2c EXCEPT ![c] = SrvWrite(c, ACK, srv[c].id)]
    /\ \E nxt \in AfterDrain(c) : srv' = [srv EXCEPT ![c].pc = nxt]
    /\ UNCHANGED <<ax_state, ax_pos, ax_err, moves, c2s, link, modelVars, task,
                   nconn, ncalls>>
    /\ NoReturn

\* fwi, gwi, lsi after the sleep, then cmd_loop writes the reply and the prompt
home_done(c) ==
    /\ srv[c].pc = "home"
    /\ ~NewTask
    /\ ax_state' = [ax_state EXCEPT ![srv[c].a] = 2]
    /\ s2c' = [s2c EXCEPT ![c] = SrvWrite(c, ACK, srv[c].id)]
    /\ \E nxt \in AfterDrain(c) : srv' = [srv EXCEPT ![c].pc = nxt]
    /\ UNCHANGED <<ax_pos, ax_err, moves, c2s, link, modelVars, task, nconn, ncalls>>
    /\ NoReturn

\* _execute_fw_move, _execute_gw_move: up to the sleep
execute_wheel_move_begin(i) ==
    LET m == moves[i] IN
    /\ m.phase = "new"
    /\ m.a \in Wheels
    /\ IF ax_pos[m.a].v # m.target.v THEN
           /\ ax_state' = [ax_state EXCEPT ![m.a] = 1]
           /\ ax_pos' = [ax_pos EXCEPT ![m.a] = Num(3 * Scale, FALSE)]
           /\ moves' = [moves EXCEPT ![i].phase = "sleep",
                                     ![i].left = wait_time_move]
       ELSE
           /\ moves' = RemoveAt(moves, i)
           /\ UNCHANGED <<ax_state, ax_pos>>
    /\ UNCHANGED <<ax_err, netVars, modelVars, task, nconn, ncalls>>
    /\ NoReturn

\* a faulty wheel, which reaches its slot and stays Moving
WheelStaysMoving(i) ==
    LET m == moves[i] IN
    /\ m.phase = "sleep"
    /\ m.a \in Wheels
    /\ ax_pos' = [ax_pos EXCEPT ![m.a] = m.target]
    /\ moves' = RemoveAt(moves, i)
    /\ UNCHANGED <<ax_state, ax_err, netVars, modelVars, task, nconn, ncalls>>
    /\ NoReturn

\* _execute_fw_move, _execute_gw_move: after the sleep
execute_wheel_move_end(i) ==
    LET m == moves[i] IN
    /\ m.phase = "sleep"
    /\ m.a \in Wheels
    /\ ax_state' = [ax_state EXCEPT ![m.a] = 2]
    /\ ax_pos' = [ax_pos EXCEPT ![m.a] = m.target]
    /\ moves' = RemoveAt(moves, i)
    /\ UNCHANGED <<ax_err, netVars, modelVars, task, nconn, ncalls>>
    /\ NoReturn

\* _execute_ls_move: up to the first sleep of the loop over np.arange
execute_ls_move_begin(i) ==
    LET m == moves[i]
        dir == IF m.target.v > ax_pos["ls"].v THEN 1 ELSE -1
    IN
    /\ m.phase = "new"
    /\ m.a = "ls"
    /\ IF ax_pos["ls"].v # m.target.v THEN
           /\ ax_state' = [ax_state EXCEPT !["ls"] = 1]
           /\ ax_pos' = [ax_pos EXCEPT !["ls"] = Num(ax_pos["ls"].v, TRUE)]
           /\ moves' = [moves EXCEPT ![i] = [m EXCEPT !.phase = "sleep",
                                                      !.cur = ax_pos["ls"].v,
                                                      !.dir = dir,
                                                      !.left = ls_step_time]]
       ELSE
           /\ moves' = RemoveAt(moves, i)
           /\ UNCHANGED <<ax_state, ax_pos>>
    /\ UNCHANGED <<ax_err, netVars, modelVars, task, nconn, ncalls>>
    /\ NoReturn

\* _execute_ls_move: after a sleep, the next position of np.arange or the end
execute_ls_move_step(i) ==
    LET m == moves[i] IN
    /\ m.phase = "sleep"
    /\ m.a = "ls"
    /\ IF ArangeMore(m.cur, m.target.v, m.dir) THEN
           /\ ax_pos' = [ax_pos EXCEPT !["ls"] =
                           Num(m.cur + m.dir * ls_step * Scale, TRUE)]
           /\ moves' = [moves EXCEPT ![i].cur = m.cur + m.dir * ls_step * Scale,
                                     ![i].left = ls_step_time]
           /\ UNCHANGED ax_state
       ELSE
           /\ ax_pos' = [ax_pos EXCEPT !["ls"] = m.target]
           /\ ax_state' = [ax_state EXCEPT !["ls"] = 2]
           /\ moves' = RemoveAt(moves, i)
    /\ UNCHANGED <<ax_err, netVars, modelVars, task, nconn, ncalls>>
    /\ NoReturn

\* the network drops a connection: both ends see end of stream
connection_lost(c) ==
    /\ link[c] = "open"
    /\ link' = [link EXCEPT ![c] = "lost"]
    /\ UNCHANGED <<devVars, srv, c2s, s2c, modelVars, task, nconn, ncalls>>
    /\ NoReturn

(***************************************************************************)
(* Model: decoding                                                         *)
(***************************************************************************)
\* WheelStatus.status and WheelStatus.error
\* a faulty table, which takes M for Stationary and S for Moving
StatusSwapped(c) == CASE c = <<"I">> -> "HOMING" [] c = <<"M">> -> "STATIONARY"
                      [] c = <<"S">> -> "MOVING" [] c = <<"X">> -> "NOTINPOSITION"
                      [] OTHER -> "KeyError"

StatusOf(c) == CASE c = <<"I">> -> "HOMING" [] c = <<"M">> -> "MOVING"
                 [] c = <<"S">> -> "STATIONARY" [] c = <<"X">> -> "NOTINPOSITION"
                 [] OTHER -> "KeyError"
ErrorOf(c) == CASE c = <<"N">> -> "NONE" [] c = <<"B">> -> "BUSY"
                [] c = <<"I">> -> "NOTINITIALIZED" [] c = <<"T">> -> "MOVETIMEOUT"
                [] OTHER -> "KeyError"

\* ATSpectrograph.FilterPosition.INBETWEEN
INBETWEEN == [v |-> -2, fl |-> FALSE]

\* Model.check_return
check_return(value) == rstrip(value)

\* a faulty decoder, which takes the position for an int whatever it is
StatusOfInts(values) ==
    IF Len(values) < 4 THEN [ok |-> FALSE, state |-> "IndexError", pos |-> NoNum,
                             err |-> "IndexError"]
    ELSE LET st == StatusOf(values[2])
             er == ErrorOf(values[4])
         IN [ok |-> st # "KeyError" /\ er # "KeyError" /\ ParseInt(values[3]) # NoNum,
             state |-> st, pos |-> ParseInt(values[3]), err |-> er]

\* parse_status after "values = status.split(" ")"
StatusOfValues(values) ==
    IF Len(values) < 4 THEN [ok |-> FALSE, state |-> "IndexError", pos |-> NoNum,
                             err |-> "IndexError"]
    ELSE LET p == IF ParseInt(values[3]) # NoNum THEN ParseInt(values[3])
                  ELSE IF ParseFloat(values[3]) # NoNum THEN ParseFloat(values[3])
                  ELSE INBETWEEN
             st == StatusOf(values[2])
             er == ErrorOf(values[4])
         IN [ok |-> st # "KeyError" /\ er # "KeyError", state |-> st, pos |-> p,
             err |-> er]

\* FilterWheelStatus.parse_status: (status, position, error), ok = FALSE where
\* Python raises IndexError or KeyError
parse_status(status) == Bind(split(status), LAMBDA values : StatusOfValues(values))

(***************************************************************************)
(* CSC: move_element and home_element                                      *)
(***************************************************************************)
\* Model.tolerance, 1e-2, in units of 1/Scale
tolerance == 1

\* Model.move_timeout and the sleeps of the poll loops of move_element and
\* home_element, in ticks of 0.1 s
move_timeout == 600
move_poll == 5
home_poll == 1

\* CSC.want_connection once the CSC is enabled
want_connection == FALSE

\* the methods of Model that the do_ methods name for each element
QueryOf == [fw |-> "query_fw_status", gw |-> "query_gw_status", ls |-> "query_gs_status"]
MoveOf == [fw |-> "move_fw", gw |-> "move_gw", ls |-> "move_gs"]
HomeOf == [fw |-> "init_fw", gw |-> "init_gw", ls |-> "init_gs"]

\* CSC.timeout, the timeout of the wait of end_disable, in ticks of 0.1 s
timeout == 50

\* no disable command runs
NoDisable == [pc |-> "idle", left |-> 0]

\* a task of the CSC: the utility it runs (proc), the call of Model it is at
\* (pc), the element, the commanded position, the sample it keeps (state and
\* pos: "state" of move_element, "p_state" of home_element)
\* from: the position of the sample taken before the command is sent;
\* log: the samples of the event topics the utility has written so far;
\* age: the ticks since start_time; left: what is left of the sleep of the
\* poll loop, in ticks; data: the slot and the name of the command data of
\* changeFilter and changeDisperser
NoData == [id |-> 0, name |-> ""]
IdleCsc == [proc |-> "none", pc |-> "idle", a |-> "fw", position |-> NoNum,
            state |-> "none", pos |-> NoNum, err |-> "none", from |-> NoNum,
            log |-> <<>>, age |-> 0, left |-> 0, errs |-> <<>>, data |-> NoData]

\* evt_<element>State.set_write(state=...), evt_reported<element>Position
\* .set_write(position=...), evt_<element>InPosition.set_write(inPosition=...)
StateEvt(a, st, force) ==
    [evt |-> "State", a |-> a, value |-> st, name |-> NoNum, force |-> force]
PositionEvt(a, p, force) ==
    [evt |-> "Position", a |-> a, value |-> p, name |-> NoNum, force |-> force]
InPositionEvt(a, b, force) ==
    [evt |-> "InPosition", a |-> a, value |-> b, name |-> NoNum, force |-> force]

\* int(position) of a position that parse_status has returned
IntOf(p) == IF p.v < 0 THEN p ELSE Num((p.v \div Scale) * Scale, FALSE)

\* report_filter_position, report_disperser_position: slot=int(position) and
\* name=position_name, the name being told by the slot it is the name of;
\* report_linear_stage_position: position=position
report_position(a, position, position_name) ==
    IF a \in Wheels
    THEN [evt |-> "Position", a |-> a, value |-> IntOf(position),
          name |-> position_name, force |-> TRUE]
    ELSE PositionEvt(a, position, TRUE)

\* the data of a topic: has is False until the first set_write
Data(has, value, name) == [has |-> has, value |-> value, name |-> name]

\* the topics of a CSC that has written none of them
NoEvents ==
    [State |-> [a \in Axes |-> Data(FALSE, "none", NoNum)],
     Position |-> [a \in Axes |-> Data(FALSE, NoNum, NoNum)],
     InPosition |-> [a \in Axes |-> Data(FALSE, FALSE, NoNum)]]

\* set_write(**kwargs, force_output) on a topic that holds d: the data it
\* holds afterwards, and whether a sample is written, which is when a field
\* changes (0 == 0.0), when the topic has no data yet or with force_output
set_write(d, e) ==
    [data |-> Data(TRUE, e.value, e.name),
     wrote |-> \/ e.force
               \/ ~d.has
               \/ IF e.evt = "Position"
                  THEN d.value.v # e.value.v \/ d.name # e.name
                  ELSE d.value # e.value]

\* the set_write calls es in order on the topics d: the topics afterwards and
\* the samples written
RECURSIVE set_writes(_, _)
set_writes(d, es) ==
    IF es = <<>> THEN [ev |-> d, out |-> <<>>]
    ELSE LET e == Head(es)
             r == set_write(d[e.evt][e.a], e)
             rest == set_writes([d EXCEPT ![e.evt][e.a] = r.data], Tail(es))
         IN [ev |-> rest.ev, out |-> (IF r.wrote THEN <<e>> ELSE <<>>) \o rest.out]

\* the utility ends with an exception
Raised(c, err) == [c EXCEPT !.pc = "raised", !.err = err]

\* a faulty test of the first sample, which lets every state pass
AnyState(state) == TRUE

\* move_element, home_element: the test of the sample taken at the start
IsStationary(state) == state = "STATIONARY"

\* move_element: the test that ends the poll loop
MoveComplete(state, pos, position) ==
    state = "STATIONARY" /\ pos.v - position.v <= tolerance

\* move_element, from the return of the call of Model it awaited (out) to its
\* next call; late: move_timeout has passed
move_element(c, out, late) ==
    IF out.res = "failed" THEN
        [c |-> Raised(c, out.err),
         pub |-> IF c.pc = "move" THEN <<StateEvt(c.a, "NOTINPOSITION", FALSE)>>
                 ELSE <<>>]
    ELSE IF c.pc = "query" THEN
        IF IsStationary(out.val.state) THEN
            [c |-> [c EXCEPT !.pc = "move", !.state = out.val.state, !.pos = out.val.pos,
                             !.from = out.val.pos],
             pub |-> <<StateEvt(c.a, out.val.state, FALSE),
                       StateEvt(c.a, out.val.state, FALSE)>>]
        ELSE
            [c |-> Raised(c, "Cannot change position"),
             pub |-> <<StateEvt(c.a, out.val.state, FALSE)>>]
    ELSE IF c.pc = "move" THEN
        [c |-> [c EXCEPT !.pc = "poll"],
         pub |-> (IF c.a = "ls" THEN <<PositionEvt(c.a, c.pos, FALSE)>> ELSE <<>>)
                 \o <<InPositionEvt(c.a, FALSE, FALSE)>>]
    ELSE IF MoveComplete(out.val.state, out.val.pos, c.position) THEN
        [c |-> [c EXCEPT !.pc = "done", !.state = out.val.state, !.pos = out.val.pos],
         pub |-> <<StateEvt(c.a, out.val.state, FALSE),
                   report_position(c.a, out.val.pos, c.position),
                   InPositionEvt(c.a, TRUE, FALSE)>>]
    ELSE
        [c |-> IF late THEN Raised(c, "TimeoutError")
               ELSE [c EXCEPT !.state = out.val.state, !.pos = out.val.pos,
                              !.left = move_poll],
         pub |-> <<StateEvt(c.a, out.val.state, FALSE)>>]

\* a faulty except clause, which writes nothing
NoExcept(a) == <<>>

\* home_element: the except clause of the home command and of the status
\* query that follows it
home_except(a) == <<StateEvt(a, "NOTINPOSITION", TRUE)>>

\* home_element, from the return of the call of Model it awaited (out) to its
\* next call; late: move_timeout has passed
home_element(c, out, late) ==
    IF out.res = "failed" THEN
        [c |-> Raised(c, out.err),
         pub |-> IF c.pc \in {"home", "query2"} THEN home_except(c.a) ELSE <<>>]
    ELSE IF c.pc = "query" THEN
        IF ~IsStationary(out.val.state) THEN
            [c |-> Raised(c, "Cannot home"), pub |-> <<>>]
        ELSE
            [c |-> [c EXCEPT !.pc = "home", !.from = out.val.pos],
             pub |-> <<StateEvt(c.a, "HOMING", FALSE)>>]
    ELSE IF c.pc = "home" THEN
        [c |-> [c EXCEPT !.pc = "query2"], pub |-> <<>>]
    ELSE IF c.pc = "query2" THEN
        [c |-> [c EXCEPT !.pc = "poll", !.state = out.val.state, !.pos = out.val.pos],
         pub |-> <<InPositionEvt(c.a, FALSE, TRUE)>>]
    ELSE
        LET changed == c.state # out.val.state
            p == IF changed THEN [c EXCEPT !.state = out.val.state, !.pos = out.val.pos]
                 ELSE c
            first == IF changed THEN <<StateEvt(c.a, out.val.state, FALSE)>> ELSE <<>>
        IN
        IF out.val.state = "STATIONARY" THEN
            [c |-> [p EXCEPT !.pc = "done"],
             pub |-> first \o <<PositionEvt(c.a, out.val.pos, TRUE),
                                InPositionEvt(c.a, TRUE, TRUE)>>]
        ELSE
            [c |-> IF late THEN Raised(p, "TimeoutError")
                   ELSE [p EXCEPT !.left = home_poll],
             pub |-> first]

\* the error codes of the CSC and the sleep of the health loop, in ticks
HEALTH_LOOP_DIED == 1
LS_ERROR == 2
FW_ERROR == 3
GW_ERROR == 4
CONNECTION_ERROR == 5
HEARTBEAT_INTERVAL == 10

\* health_monitor_loop, from the return of the query it awaited (out) to its
\* next query; code is the code of the fault it declares, 0 when it declares
\* none. c.a is the axis queried (ls, fw, gw in this order) and c.errs the
\* errors of the samples of this round. An exception of a query, and the
\* TypeError of "await self.log.error(...)" in the branch of the grating
\* wheel, end in the except clause; the loop ends after every fault, the
\* summary state being FAULT
health_monitor_loop(c, out) ==
    IF out.res = "failed" THEN
        [c |-> Raised([c EXCEPT !.errs = <<>>], out.err), code |-> HEALTH_LOOP_DIED]
    ELSE IF c.a = "ls" THEN
        [c |-> [c EXCEPT !.a = "fw", !.errs = <<out.val.err>>], code |-> 0]
    ELSE IF c.a = "fw" THEN
        [c |-> [c EXCEPT !.a = "gw", !.errs = @ \o <<out.val.err>>], code |-> 0]
    ELSE IF c.errs[1] # "NONE" THEN
        [c |-> [c EXCEPT !.pc = "done", !.errs = <<>>], code |-> LS_ERROR]
    ELSE IF c.errs[2] # "NONE" THEN
        [c |-> [c EXCEPT !.pc = "done", !.errs = <<>>], code |-> FW_ERROR]
    ELSE IF out.val.err # "NONE" THEN
        [c |-> Raised([c EXCEPT !.errs = <<>>], "TypeError"), code |-> HEALTH_LOOP_DIED]
    ELSE
        [c |-> [c EXCEPT !.a = "ls", !.errs = <<>>, !.left = HEARTBEAT_INTERVAL],
         code |-> 0]

\* a faulty end_enable, which writes the state of an element and not its
\* position
StateOnly(a, state, pos) == <<StateEvt(a, state, TRUE)>>

\* end_enable: the set_write calls that follow the status query of element a.
\* The state is written with force_output, the position (for a wheel the slot
\* and the name of the slot) without
enable_events(a, state, pos) ==
    <<StateEvt(a, state, TRUE),
      IF a \in Wheels
      THEN [evt |-> "Position", a |-> a, value |-> IntOf(pos), name |-> IntOf(pos),
            force |-> FALSE]
      ELSE PositionEvt(a, pos, FALSE)>>

\* a faulty end_enable, which declares no fault when a call fails
EnableNoFault(c, out) ==
    IF c.pc = "disconnect" THEN
        [c |-> Raised(c, c.err), pub |-> <<>>, code |-> 0]
    ELSE IF out.res = "failed" THEN
        [c |-> IF c.pc = "connect" THEN [c EXCEPT !.pc = "disconnect", !.err = out.err]
               ELSE Raised(c, out.err),
         pub |-> <<>>, code |-> 0]
    ELSE IF c.pc = "connect" THEN
        [c |-> [c EXCEPT !.pc = "query", !.a = "ls"], pub |-> <<>>, code |-> 0]
    ELSE
        [c |-> [c EXCEPT !.pc = IF c.a = "gw" THEN "end" ELSE "query",
                         !.a = IF c.a = "ls" THEN "fw" ELSE "gw",
                         !.state = out.val.state, !.pos = out.val.pos],
         pub |-> enable_events(c.a, out.val.state, out.val.pos),
         code |-> 0]

\* end_enable, from the return of the call of Model it awaited (out) to its
\* next call; code is the code of the fault it declares, 0 when it declares
\* none. c.pc is "connect" in Model.connect, "query" in the status query of
\* element c.a (ls, fw, gw in this order), "disconnect" in the disconnect that
\* follows a failed connect, whose exception is logged, and "end" when the
\* health loop has been started. The position of the stage of the controller
\* is never negative, so that the stage is not homed
end_enable(c, out) ==
    IF c.pc = "disconnect" THEN
        [c |-> Raised(c, c.err), pub |-> <<>>, code |-> 0]
    ELSE IF out.res = "failed" THEN
        [c |-> IF c.pc = "connect" THEN [c EXCEPT !.pc = "disconnect", !.err = out.err]
               ELSE Raised(c, out.err),
         pub |-> <<>>, code |-> CONNECTION_ERROR]
    ELSE IF c.pc = "connect" THEN
        [c |-> [c EXCEPT !.pc = "query", !.a = "ls"], pub |-> <<>>, code |-> 0]
    ELSE
        [c |-> [c EXCEPT !.pc = IF c.a = "gw" THEN "end" ELSE "query",
                         !.a = IF c.a = "ls" THEN "fw" ELSE "gw",
                         !.state = out.val.state, !.pos = out.val.pos],
         pub |-> enable_events(c.a, out.val.state, out.val.pos),
         code |-> 0]

\* the call of Model a task of the CSC makes at c.pc
CallOf(c) ==
    IF c.pc = "move" THEN [op |-> MoveOf[c.a], pos |-> c.position, want |-> FALSE]
    ELSE IF c.pc = "home" THEN [op |-> HomeOf[c.a], pos |-> NoNum, want |-> FALSE]
    ELSE [op |-> QueryOf[c.a], pos |-> NoNum, want |-> want_connection]

Calling(c) == c.pc \in {"query", "move", "poll", "home", "query2"}

\* CSC.handle_summary_state, which fault calls with the new state: the
\* controller is initialized; in a state other than DISABLED and ENABLED, the
\* Model being connected, "self.model.disconnect()" makes the coroutine of
\* disconnect and does not await it, so that no statement of disconnect runs
\* and reader and writer stay as they are; the state is then reported
handle_summary_state(state) == state

\* the task t of the CSC, being at c, goes on when the call of Model it
\* awaited has returned out
Resume(t, c, out) ==
    /\ UNCHANGED <<is_exposing, disable, unitVars>>
    /\ IF c.proc = "end_enable" THEN
           \E r \in {end_enable(c, out)} :
           \E w \in {set_writes(ev, r.pub)} :
               /\ csc' = [csc EXCEPT ![t] = [r.c EXCEPT !.log = @ \o w.out]]
               /\ pub' = r.pub
               /\ ev' = w.ev
               /\ summary_state' = (IF r.code # 0 THEN handle_summary_state("FAULT")
                                    ELSE summary_state)
               /\ errorCode' = (IF r.code # 0 THEN r.code ELSE errorCode)
       ELSE IF c.proc = "end_disable" THEN
           \* the health loop has ended; an exception of disconnect is logged
           /\ csc' = [u \in Tasks |-> IF u = t THEN [c EXCEPT !.pc = "done"] ELSE IdleCsc]
           /\ pub' = <<>>
           /\ summary_state' = "DISABLED"
           /\ UNCHANGED <<ev, errorCode>>
       ELSE IF Calling(c) /\ c.proc = "health_monitor_loop" THEN
           \E r \in {health_monitor_loop(c, out)} :
           /\ csc' = [csc EXCEPT ![t] = r.c]
           /\ pub' = <<>>
           /\ summary_state' = (IF r.code # 0 THEN handle_summary_state("FAULT")
                                    ELSE summary_state)
           /\ errorCode' = (IF r.code # 0 THEN r.code ELSE errorCode)
           /\ UNCHANGED ev
       ELSE IF Calling(c) THEN
           \E late \in BOOLEAN :
           \E r \in {IF c.proc = "move_element" THEN move_element(c, out, late)
                     ELSE home_element(c, out, late)} :
           \E w \in {set_writes(ev, r.pub)} :
               /\ csc' = [csc EXCEPT ![t] = [r.c EXCEPT !.log = @ \o w.out]]
               /\ pub' = r.pub
               /\ ev' = w.ev
               /\ UNCHANGED <<summary_state, errorCode>>
       ELSE /\ csc' = [csc EXCEPT ![t] = c]
            /\ pub' = <<>>
            /\ UNCHANGED <<ev, summary_state, errorCode>>

(***************************************************************************)
(* Model: the calls of the client tasks                                    *)
(***************************************************************************)
\* Model.__init__: min_pos, max_pos
min_pos == 0
max_pos == 10000

QueryOps == [query_fw_status |-> "fw", query_gw_status |-> "gw", query_gs_status |-> "ls"]
InitOps == [init_fw |-> "fw", init_gw |-> "gw", init_gs |-> "ls"]
MoveOps == [move_fw |-> "fw", move_gw |-> "gw", move_gs |-> "ls"]

IsQuery(op) == op \in DOMAIN QueryOps
IsInit(op) == op \in DOMAIN InitOps
IsMove(op) == op \in DOMAIN MoveOps

\* the command string a method of Model passes to run_command
CommandOf(op, pos) ==
    IF op = "stop_all_motion" THEN <<"!", "X", "X", "X">> \o CRLF
    ELSE IF IsQuery(op) THEN <<"?">> \o AxisLetters[QueryOps[op]] \o <<"S">> \o CRLF
    ELSE IF IsInit(op) THEN <<"!">> \o AxisLetters[InitOps[op]] \o <<"I">> \o CRLF
    ELSE <<"!">> \o AxisLetters[MoveOps[op]] \o <<"M">> \o FormatNum(pos) \o CRLF

\* a faulty range check, which lets every target pass
RangeAny(op, pos) == TRUE

\* move_fw, move_gw, move_gs: the range check before run_command
RangeOk(op, pos) ==
    IF op \in {"move_fw", "move_gw"} THEN ~(pos.v < 0 \/ pos.v > 3 * Scale)
    ELSE IF op = "move_gs" THEN min_pos * Scale <= pos.v /\ pos.v <= max_pos * Scale
    ELSE TRUE

\* Model.connected
connected == 0 \notin {reader, writer}

IdleTask == [pc |-> "idle", op |-> "none", cmd |-> <<>>, want |-> FALSE, id |-> 0,
             rd |-> 0, pr |-> <<>>, wrote |-> FALSE, nolink |-> FALSE]

Idle(t) == task[t].pc = "idle"

\* asyncio.Lock.release: the lock passes to the first waiter
Release(t) ==
    IF cmd_lock.holder # t THEN cmd_lock
    ELSE IF cmd_lock.waiters = <<>> THEN [holder |-> 0, waiters |-> <<>>]
    ELSE [holder |-> Head(cmd_lock.waiters), waiters |-> Tail(cmd_lock.waiters)]

\* a faulty lock, which every caller acquires at once
AcquireAtOnce(t) == [holder |-> t, waiters |-> <<>>]

\* asyncio.Lock.acquire by task t: at once when the lock is free, else queued
Acquire(t) ==
    IF cmd_lock.holder = 0 THEN [holder |-> t, waiters |-> <<>>]
    ELSE [holder |-> cmd_lock.holder, waiters |-> Append(cmd_lock.waiters, t)]

\* what the caller of the call rec of task t sees when it returns
\* (res = "done") or raises (res = "failed")
Outcome(t, rec, res, err, got, val) ==
    [t |-> t, op |-> rec.op, cmd |-> rec.cmd, want |-> rec.want,
     id |-> rec.id, pr |-> rec.pr, wrote |-> rec.wrote,
     nolink |-> rec.nolink, at |-> rec.pc,
     res |-> res, err |-> err, got |-> got, val |-> val]

\* the call rec of task t returns or raises: the task is idle again and the
\* caller, which is at c when it is a task of the CSC, goes on
ReturnTo(t, rec, res, err, got, val, c) ==
    \E out \in {Outcome(t, rec, res, err, got, val)} :
    /\ task' = [task EXCEPT ![t] = IdleTask]
    /\ last' = out
    /\ Resume(t, c, out)

Return(t, rec, res, err, got, val) == ReturnTo(t, rec, res, err, got, val, csc[t])

\* Model.disconnect, from reset_reader_writer on
Closed(l) == IF writer = 0 THEN l
             ELSE [l EXCEPT ![writer] = IF @ = "open" THEN "closed" ELSE @]
Dropped(s) == IF writer = 0 THEN s ELSE [s EXCEPT ![writer] = <<>>]

\* a faulty disconnect, which leaves the connection as it is
NoDisconnect(s) == UNCHANGED <<reader, writer, link>> /\ s2c' = s

\* "await self.disconnect()" in an except clause of run_command, the streams
\* being s: the writer property asserts when there is no writer, and nothing
\* is reset
except_disconnect(s) ==
    /\ reader' = (IF writer = 0 THEN reader ELSE 0)
    /\ writer' = 0
    /\ link' = Closed(link)
    /\ s2c' = Dropped(s)

\* Model.disconnect; c is where the caller is when it is a task of the CSC
disconnect_from(t, c) ==
    /\ Idle(t)
    /\ LET rec == [IdleTask EXCEPT !.op = "disconnect", !.nolink = ~connected] IN
       IF writer = 0 THEN
           \* "writer = self.writer" asserts isinstance(self._writer, StreamWriter)
           /\ ReturnTo(t, rec, "failed", "AssertionError", <<>>, <<>>, c)
           /\ UNCHANGED <<reader, writer, link, s2c>>
       ELSE
           /\ reader' = 0
           /\ writer' = 0
           /\ link' = Closed(link)
           /\ s2c' = Dropped(s2c)
           /\ \/ ReturnTo(t, rec, "done", "none", <<>>, <<>>, c)
              \/ \* write_eof or drain raises on a connection that is lost
                 /\ link[writer] # "open"
                 /\ ReturnTo(t, rec, "failed", "ConnectionError", <<>>, <<>>, c)
    /\ UNCHANGED <<devVars, srv, c2s, connect_task, cmd_lock, nconn, ncalls>>

disconnect(t) == disconnect_from(t, csc[t])

\* Model.connect up to "await asyncio.wait_for(self.connect_task, ...)"
connect_begin(t) ==
    /\ Idle(t)
    /\ LET rec == [IdleTask EXCEPT !.op = "connect"] IN
       IF connected THEN
           /\ Return(t, rec, "failed", "Already connected", <<>>, <<>>)
           /\ UNCHANGED connect_task
       ELSE
           /\ connect_task' = "pending"
           /\ task' = [task EXCEPT ![t] = [rec EXCEPT !.pc = "handshake"]]
           /\ NoReturn
    /\ UNCHANGED <<devVars, netVars, reader, writer, cmd_lock, nconn, ncalls>>

\* Model.connect: open_connection returns, the controller starts a cmd_loop
connect_open(t) ==
    /\ task[t].pc = "handshake"
    /\ nconn < MaxConns
    /\ LET c == nconn + 1 IN
       /\ nconn' = c
       /\ link' = [link EXCEPT ![c] = "open"]
       /\ srv' = [srv EXCEPT ![c].pc = "start"]
       /\ reader' = c
       /\ writer' = c
       /\ task' = [task EXCEPT ![t].pc = "banner1", ![t].rd = c]
    /\ connect_task' = "done"
    /\ UNCHANGED <<devVars, c2s, s2c, cmd_lock, ncalls>>
    /\ NoReturn

\* Model.connect: open_connection fails or connection_timeout expires
connect_refused(t) ==
    /\ task[t].pc = "handshake"
    /\ Return(t, task[t], "failed", "ConnectionError", <<>>, <<>>)
    /\ connect_task' = "done"
    /\ UNCHANGED <<devVars, netVars, reader, writer, cmd_lock, nconn, ncalls>>

\* Model.connect: the two readuntil of the welcome message
connect_banner(t) ==
    /\ task[t].pc \in {"banner1", "banner2"}
    /\ LET c == task[t].rd
           k == FindSub(Chars(s2c[c]), CRLF, 1)
           data == Slice(s2c[c], 1, k + 1)
       IN
       IF k # 0 THEN
           /\ s2c' = [s2c EXCEPT ![c] = Slice(@, k + 2, Len(@))]
           /\ IF task[t].pc = "banner1" THEN
                  \* the second read takes self.reader again
                  IF reader = 0
                  THEN Return(t, task[t], "failed", "AssertionError", data, <<>>)
                  ELSE /\ task' = [task EXCEPT ![t].pc = "banner2", ![t].rd = reader]
                       /\ NoReturn
              ELSE IF ~Contains(rstrip(Chars(data)), SPECTROGRAPH)
                  THEN Return(t, task[t], "failed", "No welcome message", data, <<>>)
                  ELSE Return(t, task[t], "done", "none", data, <<>>)
       ELSE
           \* end of stream (IncompleteReadError) or read_timeout
           /\ Return(t, task[t], "failed",
                     IF link[c] = "open" THEN "TimeoutError" ELSE "IncompleteReadError",
                     <<>>, <<>>)
           /\ UNCHANGED s2c
    /\ UNCHANGED <<devVars, srv, c2s, link, modelVars, nconn, ncalls>>

\* a method of Model (query_*, init_*, move_*, stop_all_motion) up to the first
\* suspension of run_command; c is where the caller is when it is a task of
\* the CSC
begin_call(t, op, pos, want, c) ==
    LET rec == [IdleTask EXCEPT !.op = op, !.want = want, !.cmd = CommandOf(op, pos),
                                !.nolink = ~connected] IN
    /\ Idle(t)
    /\ IF ~RangeOk(op, pos) THEN
           /\ ReturnTo(t, rec, "failed", "Out of range", <<>>, <<>>, c)
           /\ UNCHANGED <<cmd_lock, ncalls>>
       ELSE IF ~connected THEN
           \* with want_connection, "await self.connect_task" awaits the
           \* coroutine that connect() has given to wait_for: Python raises
           \* RuntimeError, whether that coroutine is suspended or has ended
           /\ ReturnTo(t, rec, "failed",
                       IF want /\ connect_task # "None" THEN "RuntimeError"
                       ELSE "Not connected", <<>>, <<>>, c)
           /\ UNCHANGED <<cmd_lock, ncalls>>
       ELSE
           /\ ncalls' = ncalls + 1
           /\ cmd_lock' = Acquire(t)
           /\ task' = [task EXCEPT ![t] =
                         [rec EXCEPT !.id = ncalls + 1,
                                     !.pc = IF Acquire(t).holder = t THEN "prompt" ELSE "lock",
                                     !.rd = IF Acquire(t).holder = t THEN reader ELSE 0]]
           /\ last' = NoOutcome
           /\ csc' = [csc EXCEPT ![t] = c]
           /\ pub' = <<>>
           /\ UNCHANGED <<ev, flagVars, unitVars>>
    /\ UNCHANGED <<devVars, netVars, reader, writer, connect_task, nconn>>

run_command_begin(t, op, pos, want) == begin_call(t, op, pos, want, csc[t])

\* run_command: the lock has passed to the waiting task t, which starts the
\* read of the prompt
run_command_locked(t) ==
    /\ task[t].pc = "lock"
    /\ cmd_lock.holder = t
    /\ IF reader = 0 THEN
           \* self.reader asserts; so does self.writer in disconnect()
           /\ Return(t, task[t], "failed", "AssertionError", <<>>, <<>>)
           /\ cmd_lock' = Release(t)
       ELSE
           /\ task' = [task EXCEPT ![t].pc = "prompt", ![t].rd = reader]
           /\ UNCHANGED cmd_lock
           /\ NoReturn
    /\ UNCHANGED <<devVars, netVars, reader, writer, connect_task, nconn, ncalls>>

\* a faulty check of the prompt, which accepts any byte
PromptAny(b) == b # <<>>

\* the check of the byte read for the prompt
PromptOk(b) == b = <<PROMPT>>

\* run_command: "read_bytes = await wait_for(self.reader.read(1))" and the check
\* of the prompt
run_command_prompt(t) ==
    /\ task[t].pc = "prompt"
    /\ LET c == task[t].rd
           b == IF s2c[c] # <<>> THEN <<Head(s2c[c]).ch>> ELSE <<>>
           rest == IF s2c[c] # <<>> THEN [s2c EXCEPT ![c] = Tail(@)] ELSE s2c
       IN
       IF PromptOk(b) THEN
           /\ s2c' = rest
           /\ task' = [task EXCEPT ![t].pc = "write", ![t].pr = b]
           /\ UNCHANGED <<reader, writer, link, cmd_lock>>
           /\ NoReturn
       ELSE
           \* another byte, end of stream (b"") or read_timeout
           /\ except_disconnect(rest)
           /\ Return(t, [task[t] EXCEPT !.pr = b], "failed",
                     IF writer = 0 THEN "AssertionError"
                     ELSE IF s2c[c] # <<>> \/ link[c] # "open" THEN "Controller not ready"
                     ELSE "TimeoutError", <<>>, <<>>)
           /\ cmd_lock' = Release(t)
    /\ UNCHANGED <<devVars, srv, c2s, connect_task, nconn, ncalls>>

\* run_command: "self.writer.write(...); await self.writer.drain()", then the
\* read of the reply starts
run_command_write(t) ==
    /\ task[t].pc = "write"
    /\ IF writer = 0 THEN
           \* self.writer asserts
           /\ Return(t, task[t], "failed", "AssertionError", <<>>, <<>>)
           /\ cmd_lock' = Release(t)
           /\ UNCHANGED c2s
       ELSE IF link[writer] # "open" THEN
           \* drain raises ConnectionResetError: not caught, no disconnect
           /\ Return(t, task[t], "failed", "ConnectionResetError", <<>>, <<>>)
           /\ cmd_lock' = Release(t)
           /\ UNCHANGED c2s
       ELSE
           /\ c2s' = [c2s EXCEPT ![writer] = @ \o Tag(task[t].cmd \o <<LF>>, task[t].id)]
           /\ task' = [task EXCEPT ![t].pc = "reply", ![t].rd = reader, ![t].wrote = TRUE]
           /\ UNCHANGED cmd_lock
           /\ NoReturn
    /\ UNCHANGED <<devVars, srv, s2c, link, reader, writer, connect_task, nconn, ncalls>>

\* run_command returns data to the calling method of Model, which returns
\* check_return of it, or parse_status of that for a query
Returned(t, data) ==
    \E value \in {check_return(Chars(data))} :
    IF IsQuery(task[t].op) THEN
        \E r \in {parse_status(value)} :
        IF r.ok THEN Return(t, task[t], "done", "none", data, r)
        ELSE Return(t, task[t], "failed", r.state, data, <<>>)
    ELSE Return(t, task[t], "done", "none", data, value)

\* run_command: the read of a status line, "readuntil(\r\n)"
run_command_status(t) ==
    /\ task[t].pc = "reply"
    /\ Head(task[t].cmd) = "?"
    /\ \E c \in {task[t].rd} :
       \E k \in {FindSub(Chars(s2c[c]), CRLF, 1)} :
       IF k # 0 THEN
           /\ s2c' = [s2c EXCEPT ![c] = Slice(@, k + 2, Len(@))]
           /\ Returned(t, Slice(s2c[c], 1, k + 1))
           /\ UNCHANGED <<reader, writer, link>>
       ELSE
           \* end of stream (IncompleteReadError) or read_timeout
           /\ except_disconnect(s2c)
           /\ Return(t, task[t], "failed",
                     IF writer = 0 THEN "AssertionError"
                     ELSE IF link[c] = "open" THEN "TimeoutError"
                     ELSE "IncompleteReadError", <<>>, <<>>)
    /\ cmd_lock' = Release(t)
    /\ UNCHANGED <<devVars, srv, c2s, connect_task, nconn, ncalls>>

\* run_command: the read of an acknowledgement, "read(1)"
run_command_ack(t) ==
    /\ task[t].pc = "reply"
    /\ Head(task[t].cmd) # "?"
    /\ LET c == task[t].rd IN
       IF s2c[c] # <<>> THEN
           /\ s2c' = [s2c EXCEPT ![c] = Tail(@)]
           /\ Returned(t, <<Head(s2c[c])>>)
       ELSE IF link[c] # "open" THEN
           \* end of stream: read returns b""
           /\ Returned(t, <<>>)
           /\ UNCHANGED s2c
       ELSE
           \* read_timeout: TimeoutError, not caught, no disconnect
           /\ Return(t, task[t], "failed", "TimeoutError", <<>>, <<>>)
           /\ UNCHANGED s2c
    /\ cmd_lock' = Release(t)
    /\ UNCHANGED <<devVars, srv, c2s, link, reader, writer, connect_task, nconn, ncalls>>

\* salobj runs one callback of a command topic at a time: no task is in the
\* utility proc for element a
TopicFree(proc, a) ==
    \A u \in Tasks : ~(Calling(csc[u]) /\ csc[u].proc = proc /\ csc[u].a = a)

\* move_element up to its first call of Model
move_element_begin(t, a, position, data) ==
    LET c == [IdleCsc EXCEPT !.proc = "move_element", !.pc = "query", !.a = a,
                             !.position = position, !.data = data] IN
    /\ ~Calling(csc[t])
    /\ begin_call(t, CallOf(c).op, CallOf(c).pos, CallOf(c).want, c)

\* home_element up to its first call of Model
home_element_begin(t, a) ==
    LET c == [IdleCsc EXCEPT !.proc = "home_element", !.pc = "query", !.a = a] IN
    /\ ~Calling(csc[t])
    /\ begin_call(t, CallOf(c).op, CallOf(c).pos, CallOf(c).want, c)

\* a faulty gate, which lets every command pass
AlwaysAllowed == TRUE

\* assert_move_allowed does not raise
assert_move_allowed == ~is_exposing

\* a do_ method raises err before it calls its utility
raise_error(t, proc, a, data, err) ==
    /\ Idle(t)
    /\ ~Calling(csc[t])
    /\ csc' = [csc EXCEPT ![t] = Raised([IdleCsc EXCEPT !.proc = proc, !.a = a,
                                                        !.data = data], err)]
    /\ last' = NoOutcome
    /\ pub' = <<>>
    /\ UNCHANGED <<devVars, netVars, modelVars, task, nconn, ncalls, ev, flagVars,
                   unitVars>>

\* assert_move_allowed raises ExpectedError
ExpectedError(t, proc, a) == raise_error(t, proc, a, NoData, "ExpectedError")

\* filter_info["filter_name"] and grating_info["grating_name"] of the
\* configuration (the defaults of the schema), n_filter and n_grating
filter_name == <<"empty_1", "empty_2", "empty_3", "empty_4">>
grating_name == <<"empty", "ronchi170lpmm", "ronchi90lpmm", "holo_etu1">>
n_filter == Len(filter_name)
n_grating == Len(grating_name)

\* the slot of a command that names no slot
NoSlot == 0 - 1

\* list.index(x), for x in the list
index(list, x) ==
    (CHOOSE i \in 1..Len(list) : list[i] = x /\ \A j \in 1..(i - 1) : list[j] # x) - 1

\* a faulty choice, which takes the slot when the slot is valid and looks at
\* the name only when it is not
SlotFirst(list, n, id, name) ==
    IF 0 <= id /\ id < n THEN id
    ELSE IF name # "" /\ (\E i \in 1..Len(list) : list[i] = name) THEN index(list, name)
    ELSE NoSlot

\* do_changeFilter, do_changeDisperser: filter_id, disperser_id of the data
\* (id, name), or NoSlot where RuntimeError is raised
element_id(list, n, id, name) ==
    IF name # "" THEN
        IF \E i \in 1..Len(list) : list[i] = name THEN index(list, name) ELSE NoSlot
    ELSE IF 0 <= id /\ id < n THEN id
    ELSE NoSlot

\* do_changeFilter, do_changeDisperser after the two asserts
change_element(t, a, list, n, id, name) ==
    \E slot \in {element_id(list, n, id, name)} :
        IF slot = NoSlot
        THEN raise_error(t, "move_element", a, [id |-> id, name |-> name], "RuntimeError")
        ELSE move_element_begin(t, a, Num(slot * Scale, FALSE),
                                [id |-> id, name |-> name])

\* the do_ methods of an enabled CSC
do_changeFilter(t, filter, name) ==
    /\ TopicFree("move_element", "fw")
    /\ IF assert_move_allowed
       THEN change_element(t, "fw", filter_name, n_filter, filter, name)
       ELSE ExpectedError(t, "move_element", "fw")

do_changeDisperser(t, disperser, name) ==
    /\ TopicFree("move_element", "gw")
    /\ IF assert_move_allowed
       THEN change_element(t, "gw", grating_name, n_grating, disperser, name)
       ELSE ExpectedError(t, "move_element", "gw")

do_moveLinearStage(t, distanceFromHome) ==
    /\ TopicFree("move_element", "ls")
    /\ IF assert_move_allowed THEN move_element_begin(t, "ls", distanceFromHome, NoData)
       ELSE ExpectedError(t, "move_element", "ls")

do_homeLinearStage(t) ==
    /\ TopicFree("home_element", "ls")
    /\ IF assert_move_allowed THEN home_element_begin(t, "ls")
       ELSE ExpectedError(t, "home_element", "ls")

\* the callbacks of the events startIntegration and startReadout of the camera
monitor_start_integration_callback ==
    /\ is_exposing' = TRUE
    /\ last' = NoOutcome
    /\ pub' = <<>>
    /\ UNCHANGED <<devVars, netVars, modelVars, task, nconn, ncalls, csc, ev,
                   summary_state, errorCode, disable, unitVars>>

monitor_start_readout_callback ==
    /\ is_exposing' = FALSE
    /\ last' = NoOutcome
    /\ pub' = <<>>
    /\ UNCHANGED <<devVars, netVars, modelVars, task, nconn, ncalls, csc, ev,
                   summary_state, errorCode, disable, unitVars>>

\* move_element, home_element: the next call of Model, after the set_write
\* calls or the sleep of the poll loop
next_call(t) ==
    /\ Idle(t)
    /\ Calling(csc[t])
    /\ begin_call(t, CallOf(csc[t]).op, CallOf(csc[t]).pos, CallOf(csc[t]).want, csc[t])

\* CSC.check_fg_config.  A configuration is the sequence of its items, each a
\* key k and a value v, in the order of the dict
offset_pointing_name(config) ==
    IF \E i \in 1..Len(config) : config[i].k = "offset_pointing_filter"
    THEN "offset_pointing_filter" ELSE "offset_pointing_grating"

\* config[key], for a key of config
Item(config, key) == config[CHOOSE i \in 1..Len(config) : config[i].k = key].v

\* n_info: the lengths of the lists, then those of the two lists of offsets
n_info(config) ==
    Bind(offset_pointing_name(config), LAMBDA name :
        [i \in 1..Len(SelectSeq(config, LAMBDA e : e.k # name)) |->
            Len(SelectSeq(config, LAMBDA e : e.k # name)[i].v)]
        \o <<Len(Item(config, name).x), Len(Item(config, name).y)>>)

\* what check_fg_config does: it returns a size or it raises RuntimeError
FgSize(n) == [size |-> n, err |-> "none"]
FgError == [size |-> 0, err |-> "RuntimeError"]

\* a faulty check, which leaves the lists of offsets out
ListsOnly(config) ==
    Bind(n_info(config), LAMBDA n :
        IF \A i \in 1..(Len(n) - 2) : n[i] = n[1] THEN FgSize(n[1]) ELSE FgError)

\* the size it returns, or the error it raises
check_fg_config(config) ==
    Bind(n_info(config), LAMBDA n :
        IF \A i \in 1..Len(n) : n[i] = n[1] THEN FgSize(n[1]) ELSE FgError)

\* check_fg_config has not been called
NoFg == [called |-> FALSE, config |-> <<>>, out |-> FgSize(0)]

\* the linear stage at rest at 0.0, no move made, no status sampled
NoSample == [state |-> 2, pos |-> Dbl(0, 0), taken |-> FALSE]
IdleStage == [pos |-> Dbl(0, 0), state |-> 2, pc |-> "idle",
              new_position |-> Dbl(0, 0), start |-> Dbl(0, 0),
              step |-> Dbl(0, 0), n |-> 0, i |-> 0, nlsm |-> 0,
              seen |-> NoSample]

\* no status reply has been decoded
NoDecode == [a |-> "fw", line |-> <<>>, done |-> FALSE,
             out |-> [ok |-> FALSE, state |-> "", pos |-> NoNum, err |-> ""]]

(***************************************************************************)
(* Specification of the link: client tasks call the methods of Model       *)
(***************************************************************************)
Init ==
    /\ ax_state = [a \in Axes |-> 2]
    /\ ax_pos = [a \in Axes |-> IF a = "ls" THEN Num(0, TRUE) ELSE Num(0, FALSE)]
    /\ ax_err = [a \in Axes |-> 0]
    /\ moves = <<>>
    /\ srv = [c \in Conns |-> [pc |-> "none", a |-> "fw", id |-> 0, left |-> 0]]
    /\ c2s = [c \in Conns |-> <<>>]
    /\ s2c = [c \in Conns |-> <<>>]
    /\ link = [c \in Conns |-> "unused"]
    /\ reader = 0
    /\ writer = 0
    /\ connect_task = "None"
    /\ cmd_lock = [holder |-> 0, waiters |-> <<>>]
    /\ task = [t \in Tasks |-> IdleTask]
    /\ last = NoOutcome
    /\ nconn = 0
    /\ ncalls = 0
    /\ csc = [t \in Tasks |-> IdleCsc]
    /\ pub = <<>>
    /\ ev = NoEvents
    /\ summary_state = "ENABLED"
    /\ errorCode = 0
    /\ is_exposing = FALSE
    /\ disable = NoDisable
    /\ stage = IdleStage
    /\ raw = <<>>
    /\ fg = NoFg
    /\ decode = NoDecode

\* the calls the client tasks make
LinkCalls ==
    {[op |-> "query_fw_status", pos |-> NoNum],
     [op |-> "init_fw", pos |-> NoNum],
     [op |-> "move_gs", pos |-> Num(1500 * Scale, TRUE)],
     [op |-> "stop_all_motion", pos |-> NoNum],
     [op |-> "move_fw", pos |-> Num(4 * Scale, FALSE)],
     [op |-> "move_gs", pos |-> Num(10001 * Scale, TRUE)]}

\* idle tasks are alike: the first of them makes the next call
FirstIdle(t) == Idle(t) /\ \A u \in Tasks : Idle(u) => t <= u

\* want_connection is read only while the Model is not connected
Wants == IF connected THEN {FALSE} ELSE BOOLEAN

Device ==
    \/ \E c \in Conns : cmd_loop_begin(c)
    \/ \E c \in Conns : cmd_loop(c)
    \/ \E c \in Conns : status_reply(c)
    \/ \E c \in Conns : home_done(c)

Client ==
    \* one link: the controller accepts one connection
    \/ \E t \in Tasks : nconn = 0 /\ connect_open(t)
    \/ \E t \in Tasks : connect_refused(t)
    \/ \E t \in Tasks : connect_banner(t)
    \/ \E t \in Tasks : run_command_locked(t)
    \/ \E t \in Tasks : run_command_prompt(t)
    \/ \E t \in Tasks : run_command_write(t)
    \/ \E t \in Tasks : run_command_status(t)
    \/ \E t \in Tasks : run_command_ack(t)

Callers ==
    \/ \E t \in Tasks : FirstIdle(t) /\ connect_begin(t)
    \/ \E t \in Tasks : FirstIdle(t) /\ disconnect(t)
    \/ \E t \in Tasks, k \in LinkCalls, want \in Wants :
         /\ FirstIdle(t)
         /\ ncalls < MaxCalls
         /\ run_command_begin(t, k.op, k.pos, want)

Next ==
    \/ Device
    \/ Client
    \/ Callers
    \/ \E c \in Conns : connection_lost(c)

Spec == Init /\ [][Next]_vars

(***************************************************************************)
(* Specification of a session: one task connects, commands, disconnects    *)
(* and connects again; the controller answers within read_timeout          *)
(***************************************************************************)
\* the task of the session
Solo == CHOOSE t \in Tasks : \A u \in Tasks : t <= u

\* the bytes task t reads next have arrived
Timely(t) == task[t].rd # 0 /\ s2c[task[t].rd] # <<>>

SessionCalls ==
    {[op |-> "query_fw_status", pos |-> NoNum],
     [op |-> "move_fw", pos |-> Num(2 * Scale, FALSE)]}

NextSession ==
    \/ \E c \in Conns : cmd_loop_begin(c)
    \/ \E c \in Conns : cmd_loop(c)
    \/ \E c \in Conns : status_reply(c)
    \/ \E i \in 1..Len(moves) : execute_wheel_move_begin(i)
    \/ \E i \in 1..Len(moves) : execute_wheel_move_end(i)
    \/ ~connected /\ connect_begin(Solo)
    \/ connect_open(Solo)
    \/ Timely(Solo) /\ connect_banner(Solo)
    \/ connected /\ disconnect(Solo)
    \/ \E k \in SessionCalls :
         connected /\ ncalls < MaxCalls /\ run_command_begin(Solo, k.op, k.pos, FALSE)
    \/ Timely(Solo) /\ run_command_prompt(Solo)
    \/ run_command_write(Solo)
    \/ Timely(Solo) /\ run_command_status(Solo)
    \/ Timely(Solo) /\ run_command_ack(Solo)

SpecSession == Init /\ [][NextSession]_vars

(***************************************************************************)
(* Specification of the CSC: the commands of an enabled CSC on a           *)
(* connected Model                                                         *)
(***************************************************************************)
\* end_enable: the state and the position of each element, as sampled from a
\* device that has not moved, are written; no in-position topic is
EnabledEvents ==
    [State |-> [a \in Axes |-> Data(TRUE, "STATIONARY", NoNum)],
     Position |-> [a \in Axes |->
                    IF a \in Wheels THEN Data(TRUE, Num(0, FALSE), Num(0, FALSE))
                    ELSE Data(TRUE, Num(0, TRUE), NoNum)],
     InPosition |-> [a \in Axes |-> Data(FALSE, FALSE, NoNum)]]

\* the state after connect() and end_enable: the welcome message read, the
\* prompt unread
InitCsc ==
    /\ ax_state = [a \in Axes |-> 2]
    /\ ax_pos = [a \in Axes |-> IF a = "ls" THEN Num(0, TRUE) ELSE Num(0, FALSE)]
    /\ ax_err = [a \in Axes |-> 0]
    /\ moves = <<>>
    /\ srv = [c \in Conns |-> [pc |-> IF c = 1 THEN "read" ELSE "none",
                               a |-> "fw", id |-> 0, left |-> 0]]
    /\ c2s = [c \in Conns |-> <<>>]
    /\ s2c = [c \in Conns |-> IF c = 1 THEN Tag(<<PROMPT>>, 0) ELSE <<>>]
    /\ link = [c \in Conns |-> IF c = 1 THEN "open" ELSE "unused"]
    /\ reader = 1
    /\ writer = 1
    /\ connect_task = "done"
    /\ cmd_lock = [holder |-> 0, waiters |-> <<>>]
    /\ task = [t \in Tasks |-> IdleTask]
    /\ last = NoOutcome
    /\ nconn = 1
    /\ ncalls = 0
    /\ csc = [t \in Tasks |-> IdleCsc]
    /\ pub = <<>>
    /\ ev = EnabledEvents
    /\ summary_state = "ENABLED"
    /\ errorCode = 0
    /\ is_exposing = FALSE
    /\ disable = NoDisable
    /\ stage = IdleStage
    /\ raw = <<>>
    /\ fg = NoFg
    /\ decode = NoDecode

\* the commands the CSC receives
StageTargets == {Num(2 * Scale, TRUE)}
FilterTargets == {2}

\* tasks in no command are alike: the first of them takes the next command
FirstFree(t) ==
    /\ Idle(t) /\ ~Calling(csc[t])
    /\ \A u \in Tasks : (Idle(u) /\ ~Calling(csc[u])) => t <= u

NextCsc ==
    \/ \E c \in Conns : cmd_loop(c)
    \/ \E c \in Conns : status_reply(c)
    \/ \E c \in Conns : home_done(c)
    \/ \E i \in 1..Len(moves) : execute_wheel_move_begin(i)
    \/ \E i \in 1..Len(moves) : execute_wheel_move_end(i)
    \/ \E i \in 1..Len(moves) : execute_ls_move_begin(i)
    \/ \E i \in 1..Len(moves) : execute_ls_move_step(i)
    \/ \E t \in Tasks, f \in FilterTargets :
         FirstFree(t) /\ ncalls < MaxCscCalls /\ do_changeFilter(t, f, "")
    \/ \E t \in Tasks, d \in StageTargets :
         FirstFree(t) /\ ncalls < MaxCscCalls /\ do_moveLinearStage(t, d)
    \/ \E t \in Tasks : FirstFree(t) /\ ncalls < MaxCscCalls /\ do_homeLinearStage(t)
    \/ \E t \in Tasks : ncalls < MaxCscCalls /\ next_call(t)
    \/ \E t \in Tasks : run_command_locked(t)
    \/ \E t \in Tasks : run_command_prompt(t)
    \/ \E t \in Tasks : run_command_write(t)
    \/ \E t \in Tasks : run_command_status(t)
    \/ \E t \in Tasks : run_command_ack(t)

SpecCsc == InitCsc /\ [][NextCsc]_vars

(***************************************************************************)
(* Specification of the CSC in time: the sleeps of the controller and of   *)
(* the poll loops take their time, in ticks of 0.1 s; everything else      *)
(* (the event loop, the bytes on the local link) takes none                *)
(***************************************************************************)
\* the health loop runs: task t is in it, between its start and its end
InHealthLoop(t) == csc[t].proc = "health_monitor_loop" /\ Calling(csc[t])
HealthRuns == \E t \in Tasks : InHealthLoop(t)

\* the sleeps that run, as the set of what is left of each; the timeout of
\* the wait of end_disable is one of them
Sleeping ==
    {srv[c].left : c \in {x \in Conns : srv[x].pc \in {"status", "home"}}}
    \cup {moves[i].left : i \in {x \in 1..Len(moves) : moves[x].phase = "sleep"}}
    \cup {csc[t].left : t \in {x \in Tasks : Idle(x) /\ Calling(csc[x])}}
    \cup (IF disable.pc = "wait" /\ HealthRuns THEN {disable.left} ELSE {})

\* the event loop has a callback to run now: a sleep that is over, a line
\* for a cmd_loop, bytes for a reader, a lock that was handed over
Ready ==
    \/ 0 \in Sleeping
    \/ NewTask
    \/ \E c \in Conns : /\ srv[c].pc = "read"
                        /\ FindFrom(Chars(c2s[c]), {LF}, 1) # 0 \/ link[c] # "open"
    \/ \E t \in Tasks : \/ task[t].pc = "write"
                        \/ task[t].pc = "lock" /\ cmd_lock.holder = t
                        \/ task[t].pc \in {"prompt", "reply"} /\ Timely(t)
    \/ disable.pc = "wait" /\ ~HealthRuns
    \/ disable.pc = "report"

SetMin(S) == CHOOSE x \in S : \A y \in S : x <= y

\* d ticks pass in every sleep that runs; time.time() - start_time of a poll
\* loop grows with it (no further than it matters)
sleep(d) ==
    /\ srv' = [c \in Conns |->
                 IF srv[c].pc \in {"status", "home"}
                 THEN [srv[c] EXCEPT !.left = @ - d] ELSE srv[c]]
    /\ moves' = [i \in 1..Len(moves) |->
                   IF moves[i].phase = "sleep"
                   THEN [moves[i] EXCEPT !.left = @ - d] ELSE moves[i]]
    /\ csc' = [t \in Tasks |->
                 [csc[t] EXCEPT
                    !.left = IF Idle(t) /\ Calling(csc[t]) THEN @ - d ELSE @,
                    !.age = IF csc[t].pc = "poll"
                            THEN Min(@ + d, move_timeout + 1) ELSE @]]
    /\ disable' = IF disable.pc = "wait" /\ HealthRuns
                  THEN [disable EXCEPT !.left = @ - d] ELSE disable
    /\ last' = NoOutcome
    /\ pub' = <<>>
    /\ UNCHANGED <<ax_state, ax_pos, ax_err, c2s, s2c, link, modelVars, task,
                   nconn, ncalls, ev, summary_state, errorCode, is_exposing,
                   unitVars>>

\* time passes until the first of the sleeps is over
tick ==
    /\ ~Ready
    /\ Sleeping # {}
    /\ sleep(SetMin(Sleeping))

\* a faulty poll loop, which raises TimeoutError after the first sample that
\* does not end it
AlwaysLate(t) ==
    (csc[t].pc = "poll" /\ last'.res = "done" /\ csc'[t].pc # "done")
        => csc'[t].pc = "raised"

\* the poll loop of task t raises TimeoutError when, and only when,
\* move_timeout has passed
OnTime(t) ==
    (csc[t].pc = "poll" /\ last'.res = "done" /\ csc'[t].pc # "done")
        => (csc'[t].pc = "raised" <=> csc[t].age > move_timeout)

\* number of run_command calls after which the CSC receives no new command
MaxTimedCalls == 8

\* the commands the CSC receives
TimedFilters == {0, 1, 2, 3}
TimedDispersers == {1}
TimedStage == {Num(0, TRUE), Num(2 * Scale, TRUE), Num(12 * Scale, TRUE),
               Num(1500 * Scale, TRUE)}

\* a command arrives while no other command runs, and its callback starts
Arrives(t) ==
    /\ FirstFree(t)
    /\ ncalls < MaxTimedCalls
    /\ \A u \in Tasks : Idle(u) /\ ~Calling(csc[u])

\* a command arrives while a moveLinearStage runs, and its callback starts
Overlaps(t) ==
    /\ FirstFree(t)
    /\ ncalls < MaxTimedCalls
    /\ \E u \in Tasks : Calling(csc[u]) /\ csc[u].proc = "move_element" /\ csc[u].a = "ls"

\* the steps of the event loops of the controller and of the CSC, and the
\* passing of time
TimedSteps ==
    \/ tick
    \/ \E c \in Conns : cmd_loop(c)
    \/ \E c \in Conns : srv[c].left = 0 /\ status_reply(c)
    \/ \E c \in Conns : srv[c].left = 0 /\ home_done(c)
    \/ \E i \in 1..Len(moves) : execute_wheel_move_begin(i)
    \/ \E i \in 1..Len(moves) : moves[i].left = 0 /\ execute_wheel_move_end(i)
    \/ \E i \in 1..Len(moves) : execute_ls_move_begin(i)
    \/ \E i \in 1..Len(moves) : moves[i].left = 0 /\ execute_ls_move_step(i)
    \/ \E t \in Tasks : csc[t].left = 0 /\ next_call(t)
    \/ \E t \in Tasks : run_command_locked(t)
    \/ \E t \in Tasks : Timely(t) /\ run_command_prompt(t)
    \/ \E t \in Tasks : run_command_write(t)
    \/ \E t \in Tasks : Timely(t) /\ run_command_status(t) /\ OnTime(t)
    \/ \E t \in Tasks : Timely(t) /\ run_command_ack(t)

\* what reaches the CSC from outside: the commands and the events of the
\* camera
TimedCommands ==
    \/ monitor_start_integration_callback
    \/ monitor_start_readout_callback
    \/ \E t \in Tasks, f \in TimedFilters : Arrives(t) /\ do_changeFilter(t, f, "")
    \/ \E t \in Tasks, d \in TimedDispersers : Arrives(t) /\ do_changeDisperser(t, d, "")
    \/ \E t \in Tasks, d \in TimedStage : Arrives(t) /\ do_moveLinearStage(t, d)
    \/ \E t \in Tasks : (Arrives(t) \/ Overlaps(t)) /\ do_homeLinearStage(t)

NextTimed == TimedSteps \/ TimedCommands

SpecTimed == InitCsc /\ [][NextTimed]_vars

\* the event loops run every callback that is ready, and time passes: a step
\* of TimedSteps that stays possible is taken. Nothing obliges a command or
\* an event to arrive
SpecTimedFair == SpecTimed /\ WF_vars(TimedSteps)

(***************************************************************************)
(* Specification of the CSC with its health loop, on a controller whose    *)
(* axes can go into error                                                  *)
(***************************************************************************)
MaxFaultCalls == 7
FaultDispersers == {1}

\* the controller finds an error on axis a: from then on its status lines
\* carry the letter of that error (B, I or T); one axis fails
axis_error(a, e) ==
    /\ \A b \in Axes : ax_err[b] = 0
    /\ ax_err' = [ax_err EXCEPT ![a] = e]
    /\ NoReturn
    /\ UNCHANGED <<ax_state, ax_pos, moves, netVars, modelVars, task, nconn, ncalls>>

\* end_enable: the health loop starts, up to its first query
health_monitor_loop_begin(t) ==
    LET c == [IdleCsc EXCEPT !.proc = "health_monitor_loop", !.pc = "query", !.a = "ls"] IN
    /\ summary_state = "ENABLED"
    /\ \A u \in Tasks : csc[u].proc # "health_monitor_loop"
    /\ ~Calling(csc[t])
    /\ begin_call(t, CallOf(c).op, CallOf(c).pos, CallOf(c).want, c)

NextFault ==
    \/ \E c \in Conns : cmd_loop(c)
    \/ \E c \in Conns : status_reply(c)
    \/ \E i \in 1..Len(moves) : execute_wheel_move_begin(i)
    \/ \E i \in 1..Len(moves) : execute_wheel_move_end(i)
    \/ \E a \in Axes, e \in 1..(Len(error) - 1) : axis_error(a, e)
    \/ \E t \in Tasks : FirstFree(t) /\ ncalls < MaxFaultCalls /\ health_monitor_loop_begin(t)
    \/ \E t \in Tasks, d \in FaultDispersers :
         FirstFree(t) /\ ncalls < MaxFaultCalls /\ do_changeDisperser(t, d, "")
    \/ \E t \in Tasks : ncalls < MaxFaultCalls /\ next_call(t)
    \/ \E t \in Tasks : run_command_locked(t)
    \/ \E t \in Tasks : run_command_prompt(t)
    \/ \E t \in Tasks : run_command_write(t)
    \/ \E t \in Tasks : run_command_status(t)
    \/ \E t \in Tasks : run_command_ack(t)

SpecFault == InitCsc /\ [][NextFault]_vars

(***************************************************************************)
(* Specification of the enable and disable commands: the CSC, started and  *)
(* disabled, is enabled, which connects the Model, and disabled, which     *)
(* disconnects it. summary_state is the state the CSC has reported         *)
(***************************************************************************)
\* number of run_command calls after which the health loop queries no more
MaxEnableCalls == 7

\* the state after the start command: the controller listens, the Model is
\* not connected, no topic of an element has been written
InitEnable ==
    /\ ax_state = [a \in Axes |-> 2]
    /\ ax_pos = [a \in Axes |-> IF a = "ls" THEN Num(0, TRUE) ELSE Num(0, FALSE)]
    /\ ax_err = [a \in Axes |-> 0]
    /\ moves = <<>>
    /\ srv = [c \in Conns |-> [pc |-> "none", a |-> "fw", id |-> 0, left |-> 0]]
    /\ c2s = [c \in Conns |-> <<>>]
    /\ s2c = [c \in Conns |-> <<>>]
    /\ link = [c \in Conns |-> "unused"]
    /\ reader = 0
    /\ writer = 0
    /\ connect_task = "None"
    /\ cmd_lock = [holder |-> 0, waiters |-> <<>>]
    /\ task = [t \in Tasks |-> IdleTask]
    /\ last = NoOutcome
    /\ nconn = 0
    /\ ncalls = 0
    /\ csc = [t \in Tasks |-> IdleCsc]
    /\ pub = <<>>
    /\ ev = NoEvents
    /\ summary_state = "DISABLED"
    /\ errorCode = 0
    /\ is_exposing = FALSE
    /\ disable = NoDisable
    /\ stage = IdleStage
    /\ raw = <<>>
    /\ fg = NoFg
    /\ decode = NoDecode

\* task t is in end_enable
Enabling(t) == csc[t].proc = "end_enable" /\ csc[t].pc \notin {"done", "raised"}

\* the enable command of a disabled CSC: end_enable up to its first call of
\* Model, which is connect unless the Model is connected
end_enable_begin(t) ==
    LET c == [IdleCsc EXCEPT !.proc = "end_enable", !.a = "ls",
                             !.pc = IF connected THEN "query" ELSE "connect"] IN
    /\ summary_state = "DISABLED"
    /\ \A u \in Tasks : ~Enabling(u)
    /\ Idle(t)
    /\ ~Calling(csc[t])
    /\ IF connected THEN
           begin_call(t, CallOf(c).op, CallOf(c).pos, CallOf(c).want, c)
       ELSE
           /\ connect_task' = "pending"
           /\ task' = [task EXCEPT ![t] = [IdleTask EXCEPT !.op = "connect",
                                                           !.pc = "handshake"]]
           /\ csc' = [csc EXCEPT ![t] = c]
           /\ last' = NoOutcome
           /\ pub' = <<>>
           /\ UNCHANGED <<devVars, netVars, reader, writer, cmd_lock, nconn, ncalls,
                          ev, flagVars, unitVars>>

\* end_enable: "await self.model.disconnect()" after a connect that failed
end_enable_disconnect(t) ==
    /\ csc[t].proc = "end_enable"
    /\ csc[t].pc = "disconnect"
    /\ disconnect(t)

\* the enable command after end_enable has returned: the CSC reports ENABLED
end_enable_end(t) ==
    /\ csc[t].proc = "end_enable"
    /\ csc[t].pc = "end"
    /\ csc' = [csc EXCEPT ![t].pc = "done"]
    /\ summary_state' = "ENABLED"
    /\ last' = NoOutcome
    /\ pub' = <<>>
    /\ UNCHANGED <<devVars, netVars, modelVars, task, nconn, ncalls, ev, errorCode,
                   is_exposing, disable, unitVars>>

\* the disable command of an enabled CSC: end_disable, which waits until the
\* health loop has ended (it ends within self.timeout, by itself or
\* cancelled) and disconnects; then the CSC reports DISABLED
end_disable(t) ==
    /\ summary_state = "ENABLED"
    /\ \A u \in Tasks : Idle(u)
    /\ ~Calling(csc[t])
    /\ disconnect_from(t, [IdleCsc EXCEPT !.proc = "end_disable"])

\* the next call of end_enable, and the next query of the health loop, which
\* goes on while the CSC is enabled
enable_next_call(t) ==
    /\ csc[t].proc = "health_monitor_loop"
         => (summary_state = "ENABLED" /\ ncalls < MaxEnableCalls)
    /\ next_call(t)

NextEnable ==
    \/ \E c \in Conns : cmd_loop_begin(c)
    \/ \E c \in Conns : cmd_loop(c)
    \/ \E c \in Conns : status_reply(c)
    \/ \E t \in Tasks : FirstFree(t) /\ nconn < MaxConns /\ end_enable_begin(t)
    \/ \E t \in Tasks : connect_open(t)
    \/ \E t \in Tasks : connect_refused(t)
    \/ \E t \in Tasks : connect_banner(t)
    \/ \E t \in Tasks : end_enable_disconnect(t)
    \/ \E t \in Tasks : end_enable_end(t)
    \/ \E t \in Tasks : FirstFree(t) /\ end_disable(t)
    \/ \E t \in Tasks : FirstFree(t) /\ ncalls < MaxEnableCalls /\ health_monitor_loop_begin(t)
    \/ \E t \in Tasks : enable_next_call(t)
    \/ \E t \in Tasks : run_command_prompt(t)
    \/ \E t \in Tasks : run_command_write(t)
    \/ \E t \in Tasks : run_command_status(t)

SpecEnable == InitEnable /\ [][NextEnable]_vars

(***************************************************************************)
(* Specification of the CSC in time on a controller whose elements can     *)
(* fail to reach their position, and on a connection that can be lost      *)
(***************************************************************************)
\* fwi, gwi, lsi after the sleep, for an element that does not find its
\* reference: the controller reports NotInPosition (self.states[3]), and
\* cmd_loop writes the reply and the prompt
home_jam(c) ==
    /\ srv[c].pc = "home"
    /\ ~NewTask
    /\ ax_state' = [ax_state EXCEPT ![srv[c].a] = 3]
    /\ s2c' = [s2c EXCEPT ![c] = SrvWrite(c, ACK, srv[c].id)]
    /\ \E nxt \in AfterDrain(c) : srv' = [srv EXCEPT ![c].pc = nxt]
    /\ UNCHANGED <<ax_pos, ax_err, moves, c2s, link, modelVars, task, nconn, ncalls>>
    /\ NoReturn

\* _execute_fw_move, _execute_gw_move after the sleep, for a wheel that
\* stops between two slots: the controller reports NotInPosition
wheel_jam(i) ==
    LET m == moves[i] IN
    /\ m.phase = "sleep"
    /\ m.a \in Wheels
    /\ ax_state' = [ax_state EXCEPT ![m.a] = 3]
    /\ moves' = RemoveAt(moves, i)
    /\ UNCHANGED <<ax_pos, ax_err, netVars, modelVars, task, nconn, ncalls>>
    /\ NoReturn

\* the read of task t returns: its bytes have arrived, or its stream has ended
Readable(t) ==
    task[t].rd # 0 /\ (s2c[task[t].rd] # <<>> \/ link[task[t].rd] # "open")

\* the commands the CSC receives
StuckFilters == {1}

\* the steps of the event loops of the controller and of the CSC, and the
\* passing of time
StuckSteps ==
    \/ tick
    \/ \E c \in Conns : cmd_loop(c)
    \/ \E c \in Conns : srv[c].left = 0 /\ status_reply(c)
    \/ \E c \in Conns : srv[c].left = 0 /\ home_done(c)
    \/ \E c \in Conns : srv[c].left = 0 /\ home_jam(c)
    \/ \E i \in 1..Len(moves) : execute_wheel_move_begin(i)
    \/ \E i \in 1..Len(moves) : moves[i].left = 0 /\ execute_wheel_move_end(i)
    \/ \E i \in 1..Len(moves) : moves[i].left = 0 /\ wheel_jam(i)
    \/ \E t \in Tasks : csc[t].left = 0 /\ next_call(t)
    \/ \E t \in Tasks : Readable(t) /\ run_command_prompt(t)
    \/ \E t \in Tasks : run_command_write(t)
    \/ \E t \in Tasks : Readable(t) /\ run_command_status(t) /\ OnTime(t)
    \/ \E t \in Tasks : Readable(t) /\ run_command_ack(t)

\* what reaches the CSC and the connection from outside
StuckCommands ==
    \/ \E c \in Conns : connection_lost(c)
    \/ \E t \in Tasks, f \in StuckFilters : Arrives(t) /\ do_changeFilter(t, f, "")
    \/ \E t \in Tasks : Arrives(t) /\ do_homeLinearStage(t)

NextStuck == StuckSteps \/ StuckCommands

SpecStuck == InitCsc /\ [][NextStuck]_vars

\* the event loops run every callback that is ready, and time passes
SpecStuckFair == SpecStuck /\ WF_vars(StuckSteps)

(***************************************************************************)
(* Specification of the disable command in time: the health loop of an     *)
(* enabled CSC runs, a homeLinearStage command shares the link with it,    *)
(* and end_disable waits for the loop, cancels it after self.timeout and   *)
(* disconnects                                                             *)
(***************************************************************************)
\* number of run_command calls after which the health loop queries no more
\* and no command arrives
MaxDisableCalls == 10

\* the time, in ticks, that can pass between an event and the arrival of a
\* command
Phases == {5}

\* self.summary_state is ENABLED: the CSC is enabled and no disable command
\* has set the state to DISABLED (salobj sets it before end_disable runs and
\* reports it afterwards)
Enabled == summary_state = "ENABLED" /\ disable.pc = "idle"

\* a step of the disable command, which is no call of a task
DisableStep ==
    /\ last' = NoOutcome
    /\ pub' = <<>>
    /\ UNCHANGED <<devVars, srv, c2s, connect_task, nconn, ncalls, ev, errorCode,
                   is_exposing, unitVars>>

\* the disable command of an enabled CSC whose end_enable has started the
\* health loop, up to "await asyncio.wait_for(self._health_loop, ...)"
do_disable ==
    /\ Enabled
    /\ \E t \in Tasks : csc[t].proc = "health_monitor_loop"
    /\ disable' = [pc |-> "wait", left |-> timeout]
    /\ DisableStep
    /\ UNCHANGED <<s2c, link, modelVars, task, csc, summary_state>>

\* health_monitor_loop after a query or after its sleep: the next query, or
\* the end of the loop where "while self.summary_state == ENABLED" fails
health_monitor_loop_next(t) ==
    /\ InHealthLoop(t)
    /\ Idle(t)
    /\ csc[t].left = 0
    /\ IF csc[t].a = "ls" /\ ~Enabled THEN
           /\ csc' = [csc EXCEPT ![t].pc = "done"]
           /\ DisableStep
           /\ UNCHANGED <<s2c, link, modelVars, task, summary_state, disable>>
       ELSE
           /\ ncalls < MaxDisableCalls
           /\ next_call(t)

\* task t waits and nothing it waits for has arrived
Suspended(t) ==
    /\ task[t].pc # "write"
    /\ ~(task[t].pc = "lock" /\ cmd_lock.holder = t)
    /\ ~(task[t].pc \in {"prompt", "reply"} /\ Timely(t))
    /\ ~(Idle(t) /\ csc[t].left = 0)

\* a faulty cancellation, which leaves the lock with the cancelled task
LockKept(t) == cmd_lock

\* the lock when task t is cancelled in run_command: "async with" releases
\* the lock the task holds, Lock.acquire takes the task out of the waiters
LockAfterCancel(t) ==
    IF cmd_lock.holder = t THEN Release(t)
    ELSE [cmd_lock EXCEPT !.waiters = SelectSeq(@, LAMBDA u : u # t)]

\* end_disable: the timeout of wait_for expires and wait_for cancels the
\* health loop. CancelledError is raised at the await where the loop is
\* suspended (its sleep, the lock, a read of run_command); no "except
\* Exception" catches it, and the task of the loop ends cancelled
end_disable_timeout(t) ==
    /\ disable.pc = "wait"
    /\ disable.left = 0
    /\ InHealthLoop(t)
    /\ Suspended(t)
    /\ task' = [task EXCEPT ![t] = IdleTask]
    /\ cmd_lock' = LockAfterCancel(t)
    /\ csc' = [csc EXCEPT ![t].pc = "cancelled", ![t].left = 0]
    /\ DisableStep
    /\ UNCHANGED <<s2c, link, reader, writer, summary_state, disable>>

\* end_disable once the health loop has ended or has been cancelled:
\* "await self.model.disconnect()", whose exception is logged
end_disable_disconnect ==
    /\ disable.pc = "wait"
    /\ ~HealthRuns
    /\ except_disconnect(s2c)
    /\ disable' = [pc |-> "report", left |-> 0]
    /\ DisableStep
    /\ UNCHANGED <<cmd_lock, task, csc, summary_state>>

\* the disable command after end_disable: the CSC reports its state, which
\* is DISABLED unless a fault has been declared meanwhile
do_disable_end ==
    /\ disable.pc = "report"
    /\ disable' = NoDisable
    /\ summary_state' = (IF summary_state = "ENABLED" THEN "DISABLED" ELSE summary_state)
    /\ DisableStep
    /\ UNCHANGED <<s2c, link, modelVars, task, csc>>

\* a part of a sleep passes, after which a command can arrive
elapse(d) ==
    /\ ~Ready
    /\ Sleeping # {}
    /\ d < SetMin(Sleeping)
    /\ sleep(d)

\* the steps of the event loops of the controller and of the CSC, and the
\* passing of time
DisableSteps ==
    \/ tick
    \/ \E c \in Conns : cmd_loop(c)
    \/ \E c \in Conns : srv[c].left = 0 /\ status_reply(c)
    \/ \E c \in Conns : srv[c].left = 0 /\ home_done(c)
    \/ \E t \in Tasks : health_monitor_loop_next(t)
    \/ \E t \in Tasks : ~InHealthLoop(t) /\ csc[t].left = 0 /\ next_call(t)
    \/ \E t \in Tasks : run_command_locked(t)
    \/ \E t \in Tasks : Readable(t) /\ run_command_prompt(t)
    \/ \E t \in Tasks : run_command_write(t)
    \/ \E t \in Tasks : Readable(t) /\ run_command_status(t) /\ OnTime(t)
    \/ \E t \in Tasks : Readable(t) /\ run_command_ack(t)
    \/ \E t \in Tasks : end_disable_timeout(t)
    \/ end_disable_disconnect
    \/ do_disable_end

\* what reaches the CSC from outside, and when
DisableCommands ==
    \/ \E d \in Phases : elapse(d)
    \/ \E t \in Tasks :
         FirstFree(t) /\ Enabled /\ ncalls < MaxDisableCalls /\ health_monitor_loop_begin(t)
    \/ \E t \in Tasks :
         FirstFree(t) /\ Enabled /\ ncalls < MaxDisableCalls /\ do_homeLinearStage(t)
    \/ do_disable

NextDisable == DisableSteps \/ DisableCommands

SpecDisable == InitCsc /\ [][NextDisable]_vars

(***************************************************************************)
(* Properties of the link                                                  *)
(***************************************************************************)
(* The linear stage of MockSpectrographController in double precision: one *)
(* move at a time, from where the last one ended, and status queries       *)
(***************************************************************************)
MaxStageMoves == 3

\* the positions asked for, in units of 1 / Scale: 0.0, 1.2, 3.4, 6.4
StagePositions == {0, 120, 340, 640}

notStage == <<devVars, netVars, modelVars, task, last, nconn, ncalls, cscVars,
              flagVars, raw, fg, decode>>

\* lsm while no move is in flight: float(val) within ls_limit creates the task
stage_lsm(val) ==
    /\ stage.pc = "idle"
    /\ stage.nlsm < MaxStageMoves
    /\ \E new_pos \in {FromDec(val)} :
       /\ ~Less(new_pos, FromDec(ls_limit[1] * Scale))
       /\ ~Less(FromDec(ls_limit[2] * Scale), new_pos)
       /\ stage' = [stage EXCEPT !.pc = "new", !.new_position = new_pos,
                                 !.start = stage.pos, !.nlsm = @ + 1,
                                 !.seen = NoSample]
    /\ UNCHANGED notStage

\* _execute_ls_move up to the first sleep: np.arange is evaluated once, its
\* first element is the position the stage is at
stage_move_begin ==
    /\ stage.pc = "new"
    /\ IF stage.pos # stage.new_position THEN
           \E step \in {FromDec(IF Less(stage.pos, stage.new_position)
                                THEN Scale ELSE -Scale)} :
           \E n \in {arange_len(stage.pos, stage.new_position, step)} :
               stage' = IF n > 0
                        THEN [stage EXCEPT !.state = 1, !.pc = "sleep",
                                           !.start = stage.pos, !.step = step,
                                           !.n = n, !.i = 0]
                        ELSE [stage EXCEPT !.state = 2, !.pc = "idle",
                                           !.pos = stage.new_position]
       ELSE stage' = [stage EXCEPT !.pc = "idle"]
    /\ UNCHANGED notStage

\* _execute_ls_move after a sleep: the next element of np.arange, or the end
stage_move_step ==
    /\ stage.pc = "sleep"
    /\ IF stage.i + 1 < stage.n THEN
           stage' = [stage EXCEPT !.i = @ + 1,
                                  !.pos = arange_at(stage.start, stage.step,
                                                    stage.i + 1)]
       ELSE stage' = [stage EXCEPT !.pos = stage.new_position, !.state = 2,
                                   !.pc = "idle"]
    /\ UNCHANGED notStage

\* lss at the end of its sleep: the state and the position it reports
stage_lss ==
    /\ stage.nlsm > 0
    /\ stage' = [stage EXCEPT !.seen = [state |-> stage.state, pos |-> stage.pos,
                                        taken |-> TRUE]]
    /\ UNCHANGED notStage

NextStage ==
    \/ \E val \in StagePositions : stage_lsm(val)
    \/ stage_move_begin
    \/ stage_move_step
    \/ stage_lss

SpecStage == Init /\ [][NextStage]_vars

(***************************************************************************)
(* cmd_loop of MockSpectrographController with a client that writes lines  *)
(* of its own choice and reads nothing                                     *)
(***************************************************************************)
MaxRawLines == 3

\* "?FWS", "!FWI", "!XXX" (a key without a handler), "?ABC" and "hi" (no
\* keys), "!FWMx" (an argument that is no number), a blank line and a line
\* that is no UTF-8 text
RawLines ==
    {<<"?", "F", "W", "S">> \o CRLF, <<"!", "F", "W", "I">> \o CRLF,
     <<"!", "X", "X", "X">> \o CRLF, <<"?", "A", "B", "C">> \o CRLF,
     <<"h", "i">> \o CRLF, <<"!", "F", "W", "M", "x">> \o CRLF,
     <<SP>> \o CRLF, <<NOT_UTF8>> \o CRLF}

notLoop == <<devVars, modelVars, task, last, ncalls, cscVars, flagVars, stage,
             fg, decode>>

\* asyncio.start_server accepts a connection and starts cmd_loop
raw_connect ==
    /\ nconn = 0
    /\ nconn' = 1
    /\ link' = [link EXCEPT ![1] = "open"]
    /\ srv' = [srv EXCEPT ![1].pc = "start"]
    /\ UNCHANGED <<notLoop, c2s, s2c, raw>>

\* the client writes a line; its bytes carry the number of the line
raw_write(line) ==
    /\ link[1] = "open"
    /\ Len(raw) < MaxRawLines
    /\ raw' = Append(raw, line)
    /\ c2s' = [c2s EXCEPT ![1] = @ \o Tag(line, Len(raw) + 1)]
    /\ UNCHANGED <<notLoop, nconn, link, srv, s2c>>

NextLoop ==
    \/ raw_connect
    \/ \E line \in RawLines : raw_write(line)
    \/ cmd_loop_begin(1)
    \/ cmd_loop(1)
    \/ status_reply(1)
    \/ home_done(1)

SpecLoop == Init /\ [][NextLoop]_vars

(***************************************************************************)
(* The motion tasks of MockSpectrographController in time, with a client   *)
(* that writes move commands and status queries of its own choice          *)
(***************************************************************************)
\* the line of the move command of element a to position n
MoveLine(a, n) == <<"!">> \o AxisLetters[a] \o <<"M">> \o FormatNat(n) \o CRLF

\* the positions the client commands, and the lines it writes, each of them
\* once
OverlapTargets == [fw |-> {1, 2}, gw |-> {}, ls |-> {1, 3}]
OverlapLines ==
    {MoveLine(a, n) : a \in {"fw"}, n \in OverlapTargets["fw"]}
        \cup {MoveLine(a, n) : a \in {"ls"}, n \in OverlapTargets["ls"]}
        \cup {<<"?", "F", "W", "S">> \o CRLF}

NextOverlap ==
    \/ raw_connect
    \/ \E line \in OverlapLines :
         (\A i \in 1..Len(raw) : raw[i] # line) /\ raw_write(line)
    \/ cmd_loop_begin(1)
    \/ cmd_loop(1)
    \/ srv[1].left = 0 /\ status_reply(1)
    \/ \E i \in 1..Len(moves) : execute_wheel_move_begin(i)
    \/ \E i \in 1..Len(moves) : moves[i].left = 0 /\ execute_wheel_move_end(i)
    \/ \E i \in 1..Len(moves) : execute_ls_move_begin(i)
    \/ \E i \in 1..Len(moves) : moves[i].left = 0 /\ execute_ls_move_step(i)
    \/ tick

SpecOverlap == Init /\ [][NextOverlap]_vars

(***************************************************************************)
(* The handlers and the motion tasks of MockSpectrographController in      *)
(* time, with a client that writes home commands and move commands, within *)
(* and beyond the limits of the elements                                   *)
(***************************************************************************)
\* the line of the home command of element a
HomeLine(a) == <<"!">> \o AxisLetters[a] \o <<"I">> \o CRLF

\* the positions the client commands (4 and 1001 are beyond fw_limit and
\* ls_limit), the elements it homes, and the lines it writes, each of them
\* once
DeviceTargets == [fw |-> {2, 4}, gw |-> {1}, ls |-> {2, 1001}]
DeviceHomes == {"fw", "ls"}
DeviceLines ==
    UNION {{MoveLine(a, n) : n \in DeviceTargets[a]} : a \in Axes}
        \cup {HomeLine(a) : a \in DeviceHomes}

\* the steps of the event loop of the controller, and the passing of time
DeviceSteps ==
    \/ cmd_loop_begin(1)
    \/ cmd_loop(1)
    \/ srv[1].left = 0 /\ home_done(1)
    \/ \E i \in 1..Len(moves) : execute_wheel_move_begin(i)
    \/ \E i \in 1..Len(moves) : moves[i].left = 0 /\ execute_wheel_move_end(i)
    \/ \E i \in 1..Len(moves) : execute_ls_move_begin(i)
    \/ \E i \in 1..Len(moves) : moves[i].left = 0 /\ execute_ls_move_step(i)
    \/ tick

\* what the client does
DeviceClient ==
    \/ raw_connect
    \/ \E line \in DeviceLines :
         (\A i \in 1..Len(raw) : raw[i] # line) /\ raw_write(line)

NextDevice == DeviceSteps \/ DeviceClient

SpecDevice == Init /\ [][NextDevice]_vars

\* the event loop runs every callback that is ready, and time passes
SpecDeviceFair == SpecDevice /\ WF_vars(DeviceSteps)

(***************************************************************************)
(* changeFilter and changeDisperser with slots and names of every kind     *)
(***************************************************************************)
MaxNameCalls == 3

\* data.filter, data.disperser: below the slots, a slot, above the slots
NameSlots == {NoSlot, 1, n_filter}

\* data.name: none, the name of slot 2, a name of no slot
FilterNames == {"", filter_name[3], "bad_filter_name"}
DisperserNames == {"", grating_name[3], "bad_disperser_name"}

NextNames ==
    \/ \E c \in Conns : cmd_loop(c)
    \/ \E c \in Conns : status_reply(c)
    \/ \E i \in 1..Len(moves) : execute_wheel_move_begin(i)
    \/ \E i \in 1..Len(moves) : execute_wheel_move_end(i)
    \/ \E t \in Tasks, id \in NameSlots, name \in FilterNames :
         FirstFree(t) /\ ncalls < MaxNameCalls /\ do_changeFilter(t, id, name)
    \/ \E t \in Tasks, id \in NameSlots, name \in DisperserNames :
         FirstFree(t) /\ ncalls < MaxNameCalls /\ do_changeDisperser(t, id, name)
    \/ \E t \in Tasks : ncalls < MaxNameCalls /\ next_call(t)
    \/ \E t \in Tasks : run_command_locked(t)
    \/ \E t \in Tasks : run_command_prompt(t)
    \/ \E t \in Tasks : run_command_write(t)
    \/ \E t \in Tasks : run_command_status(t)
    \/ \E t \in Tasks : run_command_ack(t)

SpecNames == InitCsc /\ [][NextNames]_vars

(***************************************************************************)
(* CSC.check_fg_config on configurations of filters and gratings whose     *)
(* lists have lengths of their own                                         *)
(***************************************************************************)
MaxFgLen == 5
FgLens == (MaxFgLen - 2)..MaxFgLen

ListOf(n) == [i \in 1..n |-> "x"]

\* the configuration of the filters (kind "filter") or of the gratings, as
\* config_schema.py lays it out
FgConfig(kind, name, band, wave, focus, x, y) ==
    <<[k |-> kind \o "_name", v |-> ListOf(name)],
      [k |-> "band", v |-> ListOf(band)],
      [k |-> "central_wavelength_" \o kind, v |-> ListOf(wave)],
      [k |-> "offset_focus_" \o kind, v |-> ListOf(focus)],
      [k |-> "offset_pointing_" \o kind, v |-> [x |-> ListOf(x), y |-> ListOf(y)]]>>

notFg == <<devVars, netVars, modelVars, task, last, nconn, ncalls, cscVars,
           flagVars, stage, raw, decode>>

check_fg_config_call(config) ==
    /\ ~fg.called
    /\ fg' = [called |-> TRUE, config |-> config, out |-> check_fg_config(config)]
    /\ UNCHANGED notFg

NextFg ==
    \E kind \in {"filter", "grating"}, name, band, wave, focus, x, y \in FgLens :
        check_fg_config_call(FgConfig(kind, name, band, wave, focus, x, y))

SpecFg == Init /\ [][NextFg]_vars

(***************************************************************************)
(* Model.query_fw_status, query_gw_status, query_gs_status on the status   *)
(* replies of the controller and on replies with fields of other kinds     *)
(***************************************************************************)
\* positions an element of the controller holds: the slots of a wheel and 3
\* in transit (int), the stage at 0 after a home (int) and at 0.0, 0.25, 1.0,
\* 2.5, 999.99, 1000.0 (float)
HeldPositions ==
    {Num(n * Scale, FALSE) : n \in 0..3}
        \cup {Num(v, TRUE) : v \in {0, 25, Scale, 250, 99999, 1000 * Scale}}

\* the replies of fws, grs, lss
StatusReplies ==
    {StatusLine(st, p, e) : st \in 0..3, p \in HeldPositions, e \in 0..3}

\* position fields that are no number, letters of a state and of an error
\* that the tables hold or do not hold, and the replies made of them
OddPositions == {<<"?">>, <<"x">>, <<>>, <<"3", "a">>, <<"1", ".", "2", ".", "3">>}
OddStates == {"S", "M", "Q", "s"}
OddErrors == {"N", "T", "Z"}
OddReplies ==
    {<<SP, st, SP>> \o p \o <<SP, e>> \o CRLF :
        st \in OddStates, p \in OddPositions, e \in OddErrors}

notDecode == <<devVars, netVars, modelVars, task, last, nconn, ncalls, cscVars,
               flagVars, stage, raw, fg>>

\* query_fw_status, query_gw_status, query_gs_status once run_command has
\* returned the reply ret_val: parse_status(self.check_return(ret_val))
query_status(a, ret_val) ==
    /\ ~decode.done
    /\ decode' = [a |-> a, line |-> ret_val, done |-> TRUE,
                  out |-> parse_status(check_return(ret_val))]
    /\ UNCHANGED notDecode

NextDecode ==
    \E a \in Axes, ret_val \in StatusReplies \cup OddReplies :
        query_status(a, ret_val)

SpecDecode == Init /\ [][NextDecode]_vars

(***************************************************************************)
\* task t is inside the exchange of run_command: between the read of the
\* prompt and the read of the reply
InExchange(t) == task[t].pc \in {"prompt", "write", "reply"}

\* the step just taken ended a run_command that had reached its exchange
Exchanged == last.at \in {"prompt", "write", "reply"}

\* C1: at most one exchange of run_command is in progress at any time, the
\* task in the exchange is the holder of cmd_lock, and the bytes a caller has
\* read after its write were caused by its own command
C1_SingleFlight ==
    /\ Cardinality({t \in Tasks : InExchange(t)}) <= 1
    /\ \A t \in Tasks : InExchange(t) => cmd_lock.holder = t
    /\ (Exchanged /\ last.wrote) => Ids(last.got) \subseteq {last.id}

\* C1: a caller returns with its reply while another caller, which has waited
\* for the lock, is about to start its own exchange
C1_Witness ==
    /\ Exchanged /\ last.wrote /\ last.got # <<>>
    /\ \E u \in Tasks : task[u].pc = "lock" /\ cmd_lock.holder = u

\* C2: after a run_command has returned a reply, the next unread byte of the
\* link, if there is one, is the prompt
C2_PromptFollows ==
    (Exchanged /\ last.res = "done" /\ last.got # <<>> /\ connected)
        => (s2c[reader] = <<>> \/ Head(s2c[reader]).ch = PROMPT)

\* C3: a command is written only after the byte read for the prompt was ">";
\* a run_command that fails at the prompt has written nothing and leaves the
\* Model disconnected and the connection closed
C3_WriteAfterPrompt ==
    /\ \A t \in Tasks : task[t].pc \in {"write", "reply"} => task[t].pr = <<PROMPT>>
    /\ \A t \in Tasks, c \in Conns :
         (task[t].id # 0 /\ task[t].id \in Ids(c2s[c])) => task[t].pr = <<PROMPT>>
    /\ (Exchanged /\ last.wrote) => last.pr = <<PROMPT>>
    /\ (Exchanged /\ last.at = "prompt") =>
         /\ last.res = "failed"
         /\ ~last.wrote
         /\ \A c \in Conns : last.id \notin Ids(c2s[c])
         /\ ~connected
         /\ \A c \in Conns : link[c] # "open"

\* C3: a run_command has failed at the prompt because the byte was not ">"
C3_Witness ==
    /\ Exchanged /\ last.at = "prompt" /\ last.res = "failed"
    /\ last.pr # <<>> /\ last.pr # <<PROMPT>>

\* the errors of the streams: a timeout, an end of stream, a reset
IOErrors == {"TimeoutError", "IncompleteReadError", "ConnectionResetError",
             "Controller not ready"}

\* C4: a run_command that fails in its exchange with an error of the streams
\* leaves the Model disconnected
C4_BrokenExchangeDisconnects ==
    (Exchanged /\ last.res = "failed" /\ last.err \in IOErrors) => ~connected

\* C5: a home, move or stop command returns successfully only when the reply
\* is a single space
C5_NonSpaceReplyFails ==
    (Exchanged /\ ~IsQuery(last.op) /\ last.res = "done" /\ last.got # <<>>)
        => Chars(last.got) = ACK

\* C6: a connect that fails after open_connection has returned leaves the
\* Model disconnected
C6_FailedConnectDisconnected ==
    (last.op = "connect" /\ last.res = "failed" /\ last.at \in {"banner1", "banner2"})
        => ~connected

\* C7: a run_command with want_connection, called while the Model is not
\* connected and a connect is in progress, does not fail at once
C7_WantConnectionWaits ==
    (last.op \notin {"none", "connect", "disconnect"} /\ last.nolink /\ last.want
       /\ \E u \in Tasks : task[u].pc = "handshake")
        => last.res # "failed"

\* C8: disconnect on a Model that is not connected raises nothing
C8_DisconnectNeverRaises ==
    (last.op = "disconnect" /\ last.nolink) => last.res = "done"

(***************************************************************************)
(* Properties of a session                                                 *)
(***************************************************************************)
\* C9: in a session every connect, the first and the later ones, succeeds and
\* leaves exactly the prompt unread after the two lines of the welcome
\* message; every command of every connection succeeds; opening a connection
\* and sending its welcome message leave the state of the axes as it was
C9_Reconnect ==
    /\ [](last.op = "connect" =>
            /\ last.res = "done"
            /\ Chars(last.got) = SPECTROGRAPH \o CRLF
            /\ connected
            /\ Chars(s2c[reader]) = <<PROMPT>>)
    /\ [](Exchanged => last.res = "done")
    /\ [][nconn' # nconn => UNCHANGED devVars]_vars
    /\ [][(\E c \in Conns : srv[c].pc = "start" /\ srv'[c].pc # "start")
            => UNCHANGED devVars]_vars

\* C9: the second connect has returned, after a first connection on which
\* the filter wheel was moved to slot 2, and the wheel is still there
C9_Witness ==
    /\ last.op = "connect" /\ last.res = "done"
    /\ nconn = 2 /\ ncalls = 1
    /\ link[1] = "closed" /\ link[2] = "open"
    /\ ax_state["fw"] = 2 /\ ax_pos["fw"] = Num(2 * Scale, FALSE)

(***************************************************************************)
(* Properties of the CSC                                                   *)
(***************************************************************************)
Abs(x) == IF x < 0 THEN -x ELSE x

\* the step just taken ended move_element of task t with inPosition=True
ReportedInPosition(t) ==
    /\ last.t = t
    /\ csc[t].proc = "move_element" /\ csc[t].pc = "done"
    /\ \E i \in 1..Len(pub) :
         pub[i].evt = "InPosition" /\ pub[i].a = csc[t].a /\ pub[i].value

\* C10: move_element reports in position only on a sample that is Stationary
\* and at the commanded position: the same slot for a wheel, within the
\* tolerance for the linear stage
C10_InPositionAtTarget ==
    \A t \in Tasks : ReportedInPosition(t) =>
        /\ last.val.state = "STATIONARY"
        /\ IF csc[t].a \in Wheels THEN last.val.pos.v = csc[t].position.v
           ELSE Abs(last.val.pos.v - csc[t].position.v) <= tolerance

\* the samples of topic evt of element a among the samples log, in order
SamplesOf(log, evt, a) ==
    LET Is(e) == e.evt = evt /\ e.a = a IN SelectSeq(log, Is)

ValuesOf(w) == [i \in 1..Len(w) |-> w[i].value]

\* task t has run move_element to its end without an exception
Moved(t) == csc[t].proc = "move_element" /\ csc[t].pc = "done"

\* C11: a move_element that has succeeded has written inPosition=False and
\* then inPosition=True on the in-position topic of its element, and no other
\* sample of it; the last position it has reported is the commanded one: the
\* slot and the name for a wheel, the position for the linear stage
C11_MovePublishes ==
    \A t \in Tasks : Moved(t) =>
        LET c == csc[t]
            rep == SamplesOf(c.log, "Position", c.a)
        IN /\ ValuesOf(SamplesOf(c.log, "InPosition", c.a)) = <<FALSE, TRUE>>
           /\ rep # <<>>
           /\ rep[Len(rep)].value.v = c.position.v
           /\ c.a \in Wheels => rep[Len(rep)].name = c.position

\* the step runs the first part of a motion task whose target is the position
\* of its axis
NoOpMove(a) ==
    /\ Len(moves') < Len(moves)
    /\ \E i \in 1..Len(moves) :
         /\ moves[i].phase = "new" /\ moves[i].a = a
         /\ moves[i].target.v = ax_pos[a].v

\* C12: a move to the position of the axis leaves the state of the axis on
\* the device as it is, and the move_element that has made it has written no
\* sample of the state topic of the axis; a move_element to another position
\* has written Moving before its last sample of the state topic, which is
\* Stationary
C12_NoOpAndMoving ==
    /\ [][\A a \in Axes : NoOpMove(a) => ax_state'[a] = ax_state[a]]_vars
    /\ [](\A t \in Tasks : Moved(t) =>
            LET c == csc[t]
                st == ValuesOf(SamplesOf(c.log, "State", c.a))
            IN IF c.from.v = c.position.v THEN st = <<>>
               ELSE /\ st # <<>>
                    /\ st[Len(st)] = "STATIONARY"
                    /\ \E i \in 1..Len(st) : st[i] = "MOVING")

\* task t has run home_element to its end without an exception
Homed(t) == csc[t].proc = "home_element" /\ csc[t].pc = "done"

\* C13: a home_element that has succeeded has written two samples of the
\* state topic of its axis, Homing and then Stationary, and the last position
\* it has reported is 0
C13_HomeTransitions ==
    \A t \in Tasks : Homed(t) =>
        LET c == csc[t]
            rep == SamplesOf(c.log, "Position", c.a)
        IN /\ ValuesOf(SamplesOf(c.log, "State", c.a)) = <<"HOMING", "STATIONARY">>
           /\ rep # <<>>
           /\ rep[Len(rep)].value.v = 0

\* a moveLinearStage has run while task t was in its command
Overlapped(t) ==
    \E u \in Tasks \ {t} :
        csc[u].proc = "move_element" /\ csc[u].a = "ls" /\ csc[u].pc # "idle"

\* the last position that task t has reported
Reported(t) ==
    LET rep == SamplesOf(csc[t].log, "Position", csc[t].a) IN rep[Len(rep)].value

NotStationary(t) ==
    csc[t].pc = "raised" /\ csc[t].err \in {"Cannot change position", "Cannot home"}

\* C15: when the sample that move_element or home_element takes at its start
\* is not Stationary, the utility fails there; a utility that has failed so
\* is in no call of Model, has sent nothing after its query, and the next
\* call of its task is the first query of another command
C15_NotStationaryFails ==
    /\ [][\A t \in Tasks :
            (csc[t].pc = "query" /\ last'.t = t /\ last'.res = "done"
               /\ last'.val.state # "STATIONARY")
            => (NotStationary(t)' /\ c2s' = c2s /\ ncalls' = ncalls)]_vars
    /\ [](\A t \in Tasks : NotStationary(t) => Idle(t))
    /\ [][\A t \in Tasks :
            (NotStationary(t) /\ ~Idle(t)') => csc'[t].pc = "query"]_vars

\* C15: a move_element has just failed on a first sample that is Moving
C15_Witness ==
    \E t \in Tasks :
        /\ NotStationary(t) /\ csc[t].proc = "move_element"
        /\ last.t = t /\ last.res = "done" /\ last.val.state = "MOVING"

\* the move command of task t has just been answered with something else
\* than the space ack
Rejected(t) ==
    /\ last.t = t /\ IsMove(last.op) /\ last.at = "reply"
    /\ last.got # <<>> /\ Chars(last.got) # ACK

\* C16: when the reply of the device to the move command of move_element is
\* not the space ack, move_element writes the axis state NOTINPOSITION and
\* ends with an error; it does not go on to poll
C16_RejectedMoveFails ==
    \A t \in Tasks :
        (Rejected(t) /\ csc[t].proc = "move_element")
        => /\ csc[t].pc = "raised"
           /\ \E i \in 1..Len(pub) : pub[i].evt = "State" /\ pub[i].value = "NOTINPOSITION"

\* the target of the call k is outside the bounds of its axis: a slot outside
\* 0..3 for a wheel, a position outside [min_pos, max_pos] for the stage
OutOfBounds(k) ==
    /\ IsMove(k.op)
    /\ IF k.op = "move_gs" THEN k.pos.v < min_pos * Scale \/ k.pos.v > max_pos * Scale
       ELSE k.pos.v < 0 \/ k.pos.v > 3 * Scale

\* C17: a move whose target is outside the bounds of its axis never enters
\* run_command, so its command is never written; the call fails in the step
\* that makes it, and that step leaves the link, the count of commands and the
\* device (state, position and error of every axis, its move tasks and its
\* handlers) as they were
C17_OutOfRangeFailsFast ==
    /\ [](\A t \in Tasks, k \in LinkCalls :
            (OutOfBounds(k) /\ ~Idle(t)) => task[t].cmd # CommandOf(k.op, k.pos))
    /\ [][\A k \in LinkCalls :
            (OutOfBounds(k) /\ last'.op = k.op /\ last'.cmd = CommandOf(k.op, k.pos))
            => /\ last'.res = "failed" /\ last'.err = "Out of range" /\ ~last'.wrote
               /\ UNCHANGED <<devVars, netVars, ncalls, cmd_lock>>]_vars

\* C17: on an open link, a move of the stage to 10001.0 or of the filter
\* wheel to slot 4 has just failed
C17_Witness ==
    /\ connected
    /\ last.res = "failed" /\ last.err = "Out of range"
    /\ last.op \in {"move_fw", "move_gs"}

\* the fault codes of the axes whose sample of a round of the health loop
\* carries an error, errs being the errors of the linear stage, the filter
\* wheel and the grating wheel
FaultCodes(errs) ==
    {k \in {LS_ERROR, FW_ERROR, GW_ERROR} : errs[k - 1] # "NONE"}

\* C18: a round of the health loop with an error in one of its three samples
\* puts the CSC in FAULT with the code of a faulty axis and ends the loop; a
\* poll of move_element or home_element whose sample carries an error ends
\* the utility with an error
C18_ErrorSurfaced ==
    /\ [][\A t \in Tasks :
            LET errs == csc[t].errs \o <<last'.val.err>> IN
            (/\ csc[t].proc = "health_monitor_loop" /\ csc[t].pc = "query"
             /\ csc[t].a = "gw"
             /\ last'.t = t /\ last'.res = "done"
             /\ FaultCodes(errs) # {})
            => /\ summary_state' = "FAULT"
               /\ errorCode' \in FaultCodes(errs)
               /\ ~Calling(csc'[t])]_vars
    /\ [][\A t \in Tasks :
            (/\ csc[t].proc \in {"move_element", "home_element"} /\ csc[t].pc = "poll"
             /\ last'.t = t /\ last'.res = "done"
             /\ last'.val.err # "NONE")
            => csc'[t].pc = "raised"]_vars

\* C19: while is_exposing is set, a step in which a command reaches a task
\* that runs none is a rejection with ExpectedError: it starts no call of
\* Model and writes nothing to the link; a task whose command was rejected
\* is in no call of Model
C19_ExposureGate ==
    /\ [][\A t \in Tasks :
            (is_exposing /\ ~Calling(csc[t]) /\ csc'[t] # csc[t])
            => /\ csc'[t].pc = "raised" /\ csc'[t].err = "ExpectedError"
               /\ UNCHANGED <<task, ncalls, c2s, cmd_lock, devVars>>]_vars
    /\ [](\A t \in Tasks : csc[t].err = "ExpectedError" => Idle(t))

\* C19: a homeLinearStage has just been rejected during an exposure, the
\* stage being away from home
C19_Witness ==
    \E t \in Tasks :
        /\ is_exposing
        /\ csc[t].pc = "raised" /\ csc[t].err = "ExpectedError"
        /\ csc[t].proc = "home_element"
        /\ ax_pos["ls"].v > 0

\* task t polls for the end of a wheel move that the controller has accepted
WheelPoll(t) ==
    /\ csc[t].proc = "move_element" /\ csc[t].a \in Wheels
    /\ csc[t].pc = "poll"

\* C20: on the simulated controller, the poll loop of an accepted wheel move
\* to slot p leads to a status sample Stationary at p, which ends the loop
\* before move_timeout has passed; no wheel move ends with TimeoutError
C20_WheelMoveCompletes ==
    /\ \A t \in Tasks :
         WheelPoll(t) ~> (/\ csc[t].pc = "done" /\ csc[t].a \in Wheels
                          /\ csc[t].state = "STATIONARY"
                          /\ csc[t].pos.v = csc[t].position.v
                          /\ csc[t].age <= move_timeout)
    /\ [](\A t \in Tasks :
            (csc[t].proc = "move_element" /\ csc[t].a \in Wheels)
            => csc[t].err # "TimeoutError")

\* C20: a move of the filter wheel from another slot to slot 3 has just
\* ended on a sample Stationary at 3, after samples Moving at 3
C20_Witness ==
    \E t \in Tasks :
        /\ csc[t].proc = "move_element" /\ csc[t].a = "fw" /\ csc[t].pc = "done"
        /\ csc[t].position.v = 3 * Scale /\ csc[t].from.v # 3 * Scale
        /\ last.t = t /\ last.val.state = "STATIONARY" /\ last.val.pos.v = 3 * Scale
        /\ csc[t].age > 0

\* x lies between a and b, the ends included
Between(x, a, b) == ~(Less(x, a) /\ Less(x, b)) /\ ~(Less(a, x) /\ Less(b, x))

\* C21: during a move of the linear stage from stage.start to
\* stage.new_position, with no other move or home in flight, the position a
\* status query reports lies between the start and the target
C21_StageBetween ==
    stage.seen.taken => Between(stage.seen.pos, stage.start, stage.new_position)

\* line i of raw has been read by cmd_loop and no handler is at work on it
Done(i) ==
    /\ i \notin Ids(c2s[1])
    /\ ~(srv[1].pc \in {"status", "home"} /\ srv[1].id = i)

\* the places of the bytes of s2c[1] written in reply to line i
PlacesOf(i) == {j \in 1..Len(s2c[1]) : s2c[1][j].id = i}

\* the 4-character prefix of the line is no key of _cmds, or a key without a
\* handler
NoHandler(line) ==
    Bind(strip(line), LAMBDA l : cmds(Slice(l, 1, Min(4, Len(l)))).h \in {"None", "missing"})

\* the lines of raw that are not blank and have been dealt with
Answered == {i \in 1..Len(raw) : Done(i) /\ strip(raw[i]) # <<>>}

\* C22: every line that is not blank and that cmd_loop has dealt with has got
\* one reply, which is " ?Unknown\r\n" when the line has no handler,
\* followed by one prompt; no other prompt has been written after the welcome
\* message, and cmd_loop goes on serving the connection
C22_OneReplyOnePrompt ==
    /\ srv[1].pc \notin {"crashed", "closed"}
    /\ \A i \in Answered :
           \E a, b \in 1..Len(s2c[1]) :
               /\ PlacesOf(i) = a..b
               /\ a <= b
               /\ b < Len(s2c[1])
               /\ s2c[1][b + 1] = [ch |-> PROMPT, id |-> 0]
               /\ NoHandler(raw[i]) => Chars(Slice(s2c[1], a, b)) = UNKNOWN_LINE
    /\ srv[1].pc \notin {"none", "start"}
           => Len(s2c[1]) - Cardinality(UNION {PlacesOf(i) : i \in 1..Len(raw)})
                  = Len(WELCOME) + Cardinality(Answered)

\* the names of the slots of a wheel and their number
NamesOf(a) == IF a = "fw" THEN filter_name ELSE grating_name
Named(a, name) == \E i \in 1..Len(NamesOf(a)) : NamesOf(a)[i] = name

\* the task has taken a changeFilter or a changeDisperser that has passed
\* assert_move_allowed
Changing(c) == c.proc = "move_element" /\ c.a \in Wheels /\ c.err # "ExpectedError"

\* the command was rejected before move_element was called
RejectedData(c) == c.pc = "raised" /\ c.err = "RuntimeError" /\ c.position = NoNum

\* C23: a name that is not empty and not configured is rejected; a configured
\* name selects the slot of its index whatever the slot of the data; with an
\* empty name a slot from 0 to the number of slots - 1 selects itself and any
\* other slot is rejected; and the step that rejects a command writes nothing
\* to the controller and starts no call of Model
C23_TargetResolution ==
    /\ [](\A t \in Tasks : Changing(csc[t]) =>
            LET c == csc[t]
                list == NamesOf(c.a)
            IN  IF c.data.name # "" /\ ~Named(c.a, c.data.name) THEN RejectedData(c)
                ELSE IF c.data.name # ""
                    THEN /\ ~RejectedData(c)
                         /\ c.position.v \div Scale \in 0..(Len(list) - 1)
                         /\ list[c.position.v \div Scale + 1] = c.data.name
                ELSE IF 0 <= c.data.id /\ c.data.id < Len(list)
                    THEN ~RejectedData(c) /\ c.position = Num(c.data.id * Scale, FALSE)
                ELSE RejectedData(c))
    /\ [][\A t \in Tasks :
             (RejectedData(csc'[t]) /\ csc'[t] # csc[t])
                 => UNCHANGED <<c2s, ncalls, task, devVars>>]_vars

\* a changeFilter or changeDisperser with a configured name and the slot of
\* another name has sent the move command for the slot of the name; another
\* with a name of no slot has been rejected
C23_Witness ==
    /\ \E t \in Tasks :
           /\ Changing(csc[t]) /\ csc[t].pc = "poll"
           /\ csc[t].data.name \in {filter_name[3], grating_name[3]}
           /\ csc[t].data.id = 1
           /\ csc[t].position = Num(2 * Scale, FALSE)
    /\ \E t \in Tasks :
           /\ Changing(csc[t]) /\ RejectedData(csc[t])
           /\ csc[t].data.name \in {"bad_filter_name", "bad_disperser_name"}

\* the lengths of the lists of a configuration, those of the offsets included
LengthsOf(config) ==
    UNION {IF DOMAIN config[i].v = {"x", "y"}
           THEN {Len(config[i].v.x), Len(config[i].v.y)}
           ELSE {Len(config[i].v)} : i \in 1..Len(config)}

\* C24: check_fg_config returns n when all the lists of the configuration,
\* the x and the y offsets included, have the length n, and raises
\* RuntimeError when one of them has another length
C24_CheckFgConfig ==
    fg.called =>
        IF \E n \in FgLens : LengthsOf(fg.config) = {n}
        THEN fg.out.err = "none" /\ LengthsOf(fg.config) = {fg.out.size}
        ELSE fg.out.err = "RuntimeError"

\* check_fg_config has raised RuntimeError for a configuration in which the
\* list of the y offsets alone is shorter than the other lists
C24_Witness ==
    /\ fg.called
    /\ fg.out.err = "RuntimeError"
    /\ \E i \in 1..Len(fg.config) :
           /\ DOMAIN fg.config[i].v = {"x", "y"}
           /\ Len(fg.config[i].v.y) = MaxFgLen - 1
           /\ Len(fg.config[i].v.x) = MaxFgLen
           /\ \A j \in 1..Len(fg.config) :
                  j # i => Len(fg.config[j].v) = MaxFgLen

(***************************************************************************)
(* Properties of the enable command                                        *)
(***************************************************************************)
\* the CSC reports ENABLED at the end of the enable command of task t
ReportsEnabled(t) ==
    csc[t].proc = "end_enable" /\ summary_state # "ENABLED" /\ summary_state' = "ENABLED"

\* the end_enable of task t has written a sample of each of the six topics
SixSamples(t) ==
    \A a \in Axes : /\ Len(SamplesOf(csc[t].log, "State", a)) = 1
                    /\ Len(SamplesOf(csc[t].log, "Position", a)) = 1

MoveWritten(t) ==
    csc[t].proc = "move_element" /\ csc[t].pc = "move" /\ task[t].wrote

\* the values of the samples of the state topic of its element that the
\* utility of task t has written so far
StatesOf(t) == ValuesOf(SamplesOf(csc[t].log, "State", csc[t].a))

\* C26: when move_element has written its move command to the connection, it
\* has written a sample Moving of the state topic of its element
C26_MovingBeforeMove ==
    \A t \in Tasks : MoveWritten(t) => \E i \in 1..Len(StatesOf(t)) : StatesOf(t)[i] = "MOVING"

\* the utility of task t fails in its poll loop in this step: the timeout has
\* passed, or the status query has raised
PollFails(t) == csc[t].pc = "poll" /\ csc'[t].pc = "raised"

\* the state that the last status query of the utility of task t has returned
LastPolled(t) == IF last'.res = "done" THEN last'.val.state ELSE csc[t].state

\* C27: when move_element or home_element fails in its poll loop, the state
\* topic of its element holds the state that its last status query returned
C27_FailedLeavesLastPoll ==
    [][\A t \in Tasks : PollFails(t) => ev'.State[csc[t].a].value = LastPolled(t)]_vars

\* C27 for move_element alone
C27_FailedMoveLeavesLastPoll ==
    [][\A t \in Tasks : (PollFails(t) /\ csc[t].proc = "move_element")
          => ev'.State[csc[t].a].value = LastPolled(t)]_vars

\* the utility of task t sends its move or home command next, or has it on
\* the wire
Commanding(c) == c.pc \in {"move", "home"}

\* C28: move_element and home_element end, whatever the controller reports
\* and whether the connection lasts; a poll loop whose status query has
\* returned fails with TimeoutError and only once move_timeout has passed
\* since start_time; and a utility that has sent its move or home command
\* does not send it again
C28_Terminates ==
    /\ \A t \in Tasks : Calling(csc[t]) ~> ~Calling(csc[t])
    /\ [][\A t \in Tasks : (PollFails(t) /\ last'.res = "done") =>
              (csc'[t].err = "TimeoutError" /\ csc[t].age > move_timeout)]_vars
    /\ [][\A t \in Tasks : (Calling(csc[t]) /\ ~Commanding(csc[t]) /\ csc[t].pc # "query")
              => ~Commanding(csc'[t])]_vars
    /\ [][\A t \in Tasks : (task'[t].wrote /\ ~task[t].wrote /\ ~IsQuery(task[t].op))
              => Commanding(csc[t])]_vars

\* a utility has polled an element that never reported the end of its motion
\* and has failed with TimeoutError
C28_Witness ==
    \E t \in Tasks : /\ csc[t].pc = "raised"
                     /\ csc[t].err = "TimeoutError"
                     /\ csc[t].age > move_timeout
                     /\ ax_state[csc[t].a] = 3

\* the home command of the home_element of task t fails in this step
HomeCommandFails(t) ==
    csc[t].proc = "home_element" /\ csc[t].pc = "home" /\ csc'[t].pc = "raised"

\* C29: when the home command of home_element fails, the utility ends with
\* the exception of the command after it has written a sample NotInPosition
\* of the state topic of its element, which is the last sample it has written
C29_HomeFailureNotInPosition ==
    [][\A t \in Tasks : HomeCommandFails(t) =>
          /\ last'.res = "failed"
          /\ csc'[t].err = last'.err
          /\ csc'[t].log # <<>>
          /\ csc'[t].log[Len(csc'[t].log)] = StateEvt(csc[t].a, "NOTINPOSITION", TRUE)
          /\ ev'.State[csc[t].a].value = "NOTINPOSITION"]_vars

\* the home command of a home_element has just failed
C29_Witness ==
    \E t \in Tasks : /\ csc[t].proc = "home_element"
                     /\ csc[t].pc = "raised"
                     /\ last.t = t
                     /\ last.op = HomeOf[csc[t].a]
                     /\ last.res = "failed"

(***************************************************************************)
(* Properties of the motion tasks of the controller                        *)
(***************************************************************************)
\* the lines of raw that are move commands of element a and that the
\* controller has accepted, and the position of the last of them
AcceptedMoves(a) ==
    {i \in 1..Len(raw) : /\ i \notin Ids(c2s[1])
                          /\ \E n \in OverlapTargets[a] : raw[i] = MoveLine(a, n)}
LatestTarget(a) ==
    LET i == CHOOSE k \in AcceptedMoves(a) : \A j \in AcceptedMoves(a) : j <= k
    IN  CHOOSE n \in OverlapTargets[a] : raw[i] = MoveLine(a, n)

\* the motion tasks of element a, in the order of their creation
TasksOf(a) == {i \in 1..Len(moves) : moves[i].a = a}

\* the task of the last move command that element a has accepted is in
\* flight, with time to go
LatestInFlight(a) ==
    /\ AcceptedMoves(a) # {}
    /\ \E j \in TasksOf(a) : /\ \A k \in TasksOf(a) : k <= j
                              /\ moves[j].target.v = LatestTarget(a) * Scale
                              /\ moves[j].phase = "sleep"
                              /\ moves[j].left > 0

\* C30: while the task of the last move command that an element has accepted
\* is in flight, the element is not Stationary, whatever earlier move of the
\* element is in flight too; and when no motion task of the element is left,
\* the element is at the position of the last move command it has accepted
C30_SecondSupersedes ==
    \A a \in Axes :
        /\ LatestInFlight(a) => ax_state[a] # 2
        /\ (AcceptedMoves(a) # {} /\ TasksOf(a) = {}) => ax_pos[a].v = LatestTarget(a) * Scale

(***************************************************************************)
(* Properties of the disable command and of cancellation                   *)
(***************************************************************************)
\* the step cancels the polling task t
Cancels(t) == csc[t].pc # "cancelled" /\ csc'[t].pc = "cancelled"

\* C31: a polling task is cancelled between polls only: at the step that
\* cancels it, the task is in no run_command call that has written its
\* command and has not read the reply
C31_CancelBetweenPolls ==
    [][\A t \in Tasks : Cancels(t) => task[t].pc # "reply"]_vars

(***************************************************************************)
(* Properties of the handlers of the controller                            *)
(***************************************************************************)
\* the line cmd_loop takes from the connection in this step, <<>> when it
\* takes none
Handled ==
    IF srv[1].pc = "read" /\ Len(c2s'[1]) < Len(c2s[1]) THEN raw[c2s[1][1].id]
    ELSE <<>>

\* what cmd_loop writes in this step
Written == Chars(Slice(s2c'[1], Len(s2c[1]) + 1, Len(s2c'[1])))

\* C32: a move handler given a position beyond the limits of its element
\* replies "Invalid Argument", creates no motion task and leaves the state,
\* the position and the error of the element as they are; given a position
\* within the limits it replies with the space, and the motion task it has
\* created has not run yet
C32_MoveHandlerLimits ==
    [][\A a \in Axes : \A n \in DeviceTargets[a] :
          Handled = MoveLine(a, n) =>
              IF limit(a)[1] <= n /\ n <= limit(a)[2] THEN
                  /\ Written = <<SP, PROMPT>>
                  /\ Len(moves') = Len(moves) + 1
                  /\ moves'[Len(moves')].a = a
                  /\ moves'[Len(moves')].target.v = n * Scale
                  /\ moves'[Len(moves')].phase = "new"
              ELSE
                  /\ Written = INVALID_ARGUMENT \o <<PROMPT>>
                  /\ moves' = moves
                  /\ ax_state'[a] = ax_state[a]
                  /\ ax_pos'[a] = ax_pos[a]
                  /\ ax_err'[a] = ax_err[a]]_vars

\* a move beyond the limits has been rejected and a move within the limits
\* has been acknowledged, its task not having run yet
C32_Witness ==
    /\ Contains(Chars(s2c[1]), INVALID_ARGUMENT)
    /\ \E i \in 1..Len(moves) : moves[i].phase = "new"
    /\ \E i \in 1..Len(raw) : raw[i] = MoveLine("ls", 1001)

\* the element is Homing or Moving
Transient(a) == ax_state[a] \in {0, 1}

\* C33: an element of the controller that is Homing or Moving is eventually
\* Stationary or NotInPosition, whatever home and move commands the
\* controller accepts, a home during a move of the same element included
C33_TransientResolves == \A a \in Axes : Transient(a) ~> ~Transient(a)

\* the filter wheel has been homed while a move of it is in flight, and the
\* home has ended
C33_Witness ==
    /\ ax_state["fw"] = 2
    /\ ax_pos["fw"].v = 0
    /\ \E i \in 1..Len(moves) : moves[i].a = "fw" /\ moves[i].phase = "sleep"
    /\ \E i, j \in 1..Len(raw) :
         i < j /\ raw[i] = MoveLine("fw", 2) /\ raw[j] = HomeLine("fw")

\* the state, the position or the error of element b changes in this step
Touched(b) ==
    \/ ax_state'[b] # ax_state[b]
    \/ ax_pos'[b] # ax_pos[b]
    \/ ax_err'[b] # ax_err[b]

\* a home handler of element b begins or ends in this step, or a motion task
\* of element b is in flight
Commanded(b) ==
    \/ srv'[1].pc = "home" /\ srv'[1].a = b
    \/ srv[1].pc = "home" /\ srv[1].a = b
    \/ \E i \in 1..Len(moves) : moves[i].a = b

\* C40: a step of a home handler, of a move handler or of a motion task of
\* one element leaves the state, the position and the error of the other
\* two elements as they are: a step changes one element at most, and only
\* an element that has a home or a move of its own in progress
C40_OtherAxesUnchanged ==
    [][/\ \A b \in Axes : Touched(b) => Commanded(b)
       /\ \A a, b \in Axes : Touched(a) /\ Touched(b) => a = b]_vars

\* the filter wheel is being homed while motion tasks of the linear stage
\* and of the grating wheel are in flight, and the grating wheel and the
\* stage are not at position 0
C40_Witness ==
    /\ srv[1].pc = "home" /\ srv[1].a = "fw"
    /\ ax_state["fw"] = 0
    /\ \E i \in 1..Len(moves) : moves[i].a = "ls" /\ moves[i].phase # "new"
    /\ \E i \in 1..Len(moves) : moves[i].a = "gw" /\ moves[i].phase # "new"
    /\ ax_pos["gw"].v # 0
    /\ ax_pos["ls"].v # 0

(***************************************************************************)
(* Properties of the decoding of the status replies                        *)
(***************************************************************************)
\* the states and the errors of ATSpectrograph by their letters
StateOfLetter ==
    ("I" :> "HOMING") @@ ("M" :> "MOVING") @@ ("S" :> "STATIONARY")
        @@ ("X" :> "NOTINPOSITION")
ErrorOfLetter ==
    ("N" :> "NONE") @@ ("B" :> "BUSY") @@ ("I" :> "NOTINITIALIZED")
        @@ ("T" :> "MOVETIMEOUT")

\* C34: the status reply the controller writes for a state, a position and
\* an error it holds is decoded to the state and the error of the letters
\* (I Homing, M Moving, S Stationary, X NotInPosition; N None, B Busy,
\* I NotInitialized, T MoveTimeout) and to the same position
C34_StatusRoundTrip ==
    \A st \in 0..3, e \in 0..3 : \A p \in HeldPositions :
        decode.done /\ decode.line = StatusLine(st, p, e) =>
            /\ decode.out.ok
            /\ decode.out.state = StateOfLetter[states[st + 1]]
            /\ decode.out.err = ErrorOfLetter[error[e + 1]]
            /\ decode.out.pos = p

\* the reply of a stage that is NotInPosition at 999.99 with a move timeout
\* has been decoded
C34_Witness ==
    /\ decode.done
    /\ decode.line = StatusLine(3, Num(99999, TRUE), 3)
    /\ decode.out.pos.v = 99999

\* C35: a status reply whose position is neither an int nor a float is
\* decoded, by the decoder of each of the three elements, to the position
\* INBETWEEN with no exception when the letters of its state and of its
\* error are known ones, and raises when one of the two letters is unknown
C35_OddPositionInBetween ==
    \A st \in OddStates, e \in OddErrors : \A p \in OddPositions :
        decode.done /\ decode.line = <<SP, st, SP>> \o p \o <<SP, e>> \o CRLF =>
            IF st \in DOMAIN StateOfLetter /\ e \in DOMAIN ErrorOfLetter
            THEN /\ decode.out.ok
                 /\ decode.out.pos = INBETWEEN
                 /\ decode.out.state = StateOfLetter[st]
                 /\ decode.out.err = ErrorOfLetter[e]
            ELSE ~decode.out.ok

\* the decoder of the linear stage has decoded a reply with an empty
\* position to INBETWEEN
C35_Witness ==
    /\ decode.done
    /\ decode.a = "ls"
    /\ decode.line = <<SP, "M", SP, SP, "T">> \o CRLF
    /\ decode.out.ok
    /\ decode.out.pos = INBETWEEN

(***************************************************************************)
(* Properties of the summary state and of the link                         *)
(***************************************************************************)
\* C36: once the CSC has handled a transition to a summary state other than
\* DISABLED and ENABLED, the Model is not connected
C36_FaultDisconnects ==
    summary_state \notin {"DISABLED", "ENABLED"} => ~connected

\* Model.connect returns to the end_enable of task t with an exception in
\* this step
ConnectFails(t) ==
    /\ csc[t].proc = "end_enable" /\ csc[t].pc = "connect"
    /\ last'.t = t /\ last'.op = "connect" /\ last'.res = "failed"

\* the end_enable of task t ends in this step, after the disconnect that
\* follows a connect that failed
EnableFails(t) ==
    /\ csc[t].proc = "end_enable" /\ csc[t].pc = "disconnect"
    /\ csc'[t].pc = "raised"

\* C37: when Model.connect fails in end_enable, the CSC goes to FAULT with
\* the error code 5; when end_enable has ended, the CSC is in FAULT with that
\* code, the Model is not connected and no health loop has been started
C37_ConnectFailureFaults ==
    [][\A t \in Tasks :
          /\ ConnectFails(t) =>
                 /\ summary_state' = "FAULT"
                 /\ errorCode' = 5
                 /\ csc'[t].pc = "disconnect"
          /\ EnableFails(t) =>
                 /\ summary_state' = "FAULT"
                 /\ errorCode' = 5
                 /\ ~connected'
                 /\ \A u \in Tasks : csc'[u].proc # "health_monitor_loop"]_vars

\* an end_enable whose connect was refused has ended: the CSC is in FAULT and
\* no connection has been made
C37_Witness ==
    \E t \in Tasks : /\ csc[t].proc = "end_enable"
                     /\ csc[t].pc = "raised"
                     /\ csc[t].err = "ConnectionError"
                     /\ summary_state = "FAULT"
                     /\ errorCode = 5
                     /\ ~connected
                     /\ nconn = 0

\* the health loop of task t has ended: it has returned, it has been
\* cancelled or it has ended with an exception
Finished(t) == csc[t].pc \in {"done", "cancelled", "raised"}

\* end_disable has returned: the CSC is about to report its state, or it has
\* reported DISABLED
DisableReturned == disable.pc = "report" \/ summary_state = "DISABLED"

\* C38: once end_disable has returned, the task of the health loop has ended,
\* by itself or cancelled, and the Model is not connected, wherever the loop
\* was when the disable command arrived
C38_DisableEndsLoopAndLink ==
    DisableReturned =>
        /\ \A t \in Tasks : csc[t].proc = "health_monitor_loop" => Finished(t)
        /\ ~connected

\* end_disable has returned after it has cancelled the health loop, and the
\* connection of the Model is closed
C38_Witness ==
    /\ disable.pc = "report"
    /\ \E t \in Tasks : csc[t].proc = "health_monitor_loop" /\ csc[t].pc = "cancelled"
    /\ link[1] = "closed"
    /\ ~connected

(***************************************************************************)
(* Properties of the command lock                                          *)
(***************************************************************************)
\* task t is inside "async with self.cmd_lock" of run_command
InLock(t) == task[t].pc \in {"lock", "prompt", "write", "reply"}

\* C39: the task that holds cmd_lock is inside "async with self.cmd_lock" of
\* a run_command call and the tasks that wait for the lock are at its
\* entry, so that the lock is free, with no waiter, whenever no run_command
\* call is in progress: every way out of run_command, the cancellation of
\* its task included, releases the lock
C39_LockFreeOutsideCalls ==
    /\ cmd_lock.holder # 0 => InLock(cmd_lock.holder)
    /\ \A i \in 1..Len(cmd_lock.waiters) :
           /\ task[cmd_lock.waiters[i]].pc = "lock"
           /\ cmd_lock.waiters[i] # cmd_lock.holder
    /\ cmd_lock.waiters # <<>> => cmd_lock.holder # 0
    /\ (\A t \in Tasks : ~InLock(t)) => cmd_lock = [holder |-> 0, waiters |-> <<>>]

\* the health loop has been cancelled while it held the lock with a command
\* on the wire, and the lock has passed to the task that waited for it
C39_Witness ==
    \E t, u \in Tasks :
        /\ csc[t].proc = "health_monitor_loop" /\ csc[t].pc = "cancelled"
        /\ Idle(t)
        /\ cmd_lock.holder = u
        /\ u # t
        /\ InLock(u)

====
